---------------------------- MODULE Spec2Model ----------------------------
(***************************************************************************)
(* linkrot: the bounded worker pool (linkrot/threadpool.py, used by        *)
(* downloader.py and archive.py), the reference classifier                 *)
(* (backends.Reference), the pattern extractor (extractor.py) and the      *)
(* document reference collector (backends.PyMuPDFBackend).                 *)
(***************************************************************************)
EXTENDS Naturals, Integers, Sequences, FiniteSets, TLC

(***************************************************************************)
(* Bounds of the model.                                                    *)
(***************************************************************************)
MaxWorkers == 2      \* pools of 1..MaxWorkers workers
MaxTasks == 2        \* tasks put on the queue in one run
MaxWaits == 2        \* wait_completion() calls that return in one run
MaxFrags == 2        \* fragments a raw string given to the classifier is made of
MaxPages == 3        \* pages of a document given to the collector
MaxRefs == 6         \* references handed to check_refs, download_urls, archive_links
MaxChecks == 3       \* check_doi calls on one RetractionChecker
MaxUrls == 3         \* URLs in the list passed to download_urls

VARIABLES
    \* ---- ThreadPool / Worker ----
    nworkers,        \* num_threads the pool was constructed with
    tasks,           \* ThreadPool.tasks: the shared queue, task ids in FIFO order
    unfinished,      \* Queue.unfinished_tasks, the join counter
    task,            \* the tasks put so far: task[t] = [arg, via]
    wpc,             \* Worker.run position of each worker: "get" | "run" | "dead"
    wtask,           \* the task a worker dequeued and is executing (0: none)
    execs,           \* execs[t]: the threads that called task t's callable, in order
    printed,         \* number of exceptions a worker caught and printed
    mpc,             \* the submitting thread: "idle" | "mapping" | "waiting" | "returned"
    mapRest,         \* map(): the elements of the iterable not yet submitted
    mapInputs,       \* how often each element was handed to map() so far
    snap,            \* number of tasks put when the last wait_completion() began
    prevSnap,        \* snap of the wait_completion() call before that one
    nrets,           \* number of wait_completion() calls that have returned
    \* ---- Reference ----
    raw,             \* the uri argument of Reference.__init__
    ref,             \* the Reference constructed from it: [ref, reftype, page]
    \* ---- PyMuPDFBackend.__init__ ----
    doc,             \* the opened document: per page its text and link annotations
    cpc,             \* position: "idle" | "annot" | "text" | "done" | "raised"
    curpage,         \* self.curpage
    links,           \* link, link.next, ...: the current page's links not yet visited
    content,         \* content
    foundLinks,      \* foundLinks
    references,      \* self.references
    segs,            \* self.text.split('\x0c')
    pageno,          \* pageno
    urlsLeft,        \* extract_urls(page) not yet visited by the first loop
    arxivLeft,       \* extract_arxiv(page) not yet visited by the second loop
    doiLeft,         \* extract_doi(page) not yet visited by the third loop
    \* ---- linkrot.__init__ and cli.main ----
    self_uri,        \* the uri argument (args.pdf)
    env,             \* what the outside world answers: isfile, fetch_ok, open_ok, parse_ok
    opc,             \* position: "idle" | "start" | "stream" | "ready" | "raised" |
                     \*           "exited" | "uncaught"
    error,           \* the exception that left linkrot.__init__ ("none": none)
    exit_code,       \* the code cli.main exited with (0: it did not exit with an error)
    \* ---- check_refs, download_urls, archive_links ----
    call,            \* the call: [op, max_threads, nrefs] (max_threads 0: no such argument)
    fault,           \* the pool step that will raise, and what: [stage, exc]
    bpc,             \* position: "idle" | "call" | "try" | "pool" | "mapped" | "after" |
                     \*           "returned" | "escaped"
    num_threads,     \* the size the ThreadPool was constructed with (0: no pool yet)
    queued,          \* tasks of the pool not yet taken by a worker
    inflight,        \* tasks a worker is executing: requests in flight
    codes,           \* check_refs: number of status codes recorded in codes
    caught,          \* the exception an except clause of the operation caught
    result,          \* what the operation returned, or the exception that left it
    \* ---- extractor.extract_arxiv, extractor.extract_doi ----
    in_text,         \* the text argument
    extracted,       \* the sets returned for it: [arxiv, doi] (NotCalled: none yet)
    \* ---- retraction.RetractionChecker ----
    cache,           \* self.cache: DOI -> result
    results,         \* check_multiple_dois: results[doi] = self.check_doi(doi)
    returned,        \* what the last check_doi call returned
    lookups,         \* lookups made so far: rate-limit wait and HTTP calls
    nchecks,         \* check_doi calls so far
    \* ---- downloader.download_urls: the download tasks ----
    urls_arg,        \* the urls argument
    urls,            \* urls = list(set(urls))
    dpc,             \* position: "idle" | "call" | "mapped" | "returned"
    dl_tasks,        \* the download_url tasks no worker has taken yet
    writing,         \* the tasks inside "with open(fn_download, 'wb')": [url, fn_download]
    files,           \* the paths opened for writing so far
    \* ---- cli.main: the report of a run ----
    cli_args,        \* the parsed arguments: [text, json, check_retractions]
    cli_found,       \* the DOIs of the document's text, each with the result its check gives
    pdf_summary,     \* pdf.summary
    report,          \* the report the run has emitted: [format, summary] (NoReport: none yet)
    cli_pc           \* position: "idle" | "start" | "reported" | "done"

poolVars == <<nworkers, tasks, unfinished, task, wpc, wtask, execs, printed,
              mpc, mapRest, mapInputs, snap, prevSnap, nrets>>

classifyVars == <<raw, ref>>

collectVars == <<doc, cpc, curpage, links, content, foundLinks, references, segs,
                 pageno, urlsLeft, arxivLeft, doiLeft>>

openVars == <<self_uri, env, opc, error, exit_code>>

batchVars == <<call, fault, bpc, num_threads, queued, inflight, codes, caught, result>>

extractVars == <<in_text, extracted>>

\* The components that are not the pool, the classifier, the collector, nor the
\* opening of a document or a batch operation.
retractVars == <<cache, results, returned, lookups, nchecks>>

\* The variables of the first five components.
coreVars == <<poolVars, classifyVars, collectVars, openVars, batchVars>>

downloadVars == <<urls_arg, urls, dpc, dl_tasks, writing, files>>

\* The components added after the retraction checker.
cliVars == <<cli_args, cli_found, pdf_summary, report, cli_pc>>

lateVars == <<downloadVars, cliVars>>

moreVars == <<extractVars, retractVars, lateVars>>

callVars == <<openVars, batchVars, moreVars>>

vars == <<poolVars, classifyVars, collectVars, callVars>>

\* No Reference: None.
NoRef == [ref |-> << >>, reftype |-> "none", page |-> 0]

\* No Reference is being constructed.
ClassifyIdle == raw = << >> /\ ref = NoRef

\* No document is being read.
CollectIdle ==
    /\ doc = << >> /\ cpc = "idle" /\ curpage = 0 /\ links = << >> /\ content = << >>
    /\ foundLinks = << >> /\ references = {} /\ segs = << >> /\ pageno = 0
    /\ urlsLeft = {} /\ arxivLeft = {} /\ doiLeft = {}

\* No document is being opened.
OpenIdle ==
    /\ self_uri = << >> /\ opc = "idle" /\ error = "none" /\ exit_code = 0
    /\ env = [isfile |-> FALSE, fetch_ok |-> FALSE, open_ok |-> FALSE, parse_ok |-> FALSE]

\* No batch operation is running.
BatchIdle ==
    /\ call = [op |-> "none", max_threads |-> 0, nrefs |-> 0]
    /\ fault = [stage |-> "none", exc |-> "none"]
    /\ bpc = "idle" /\ num_threads = 0 /\ queued = 0 /\ inflight = 0 /\ codes = 0
    /\ caught = "none" /\ result = "none"

NotCalled == [arxiv |-> {<<"-">>}, doi |-> {<<"-">>}]

\* No extractor is being called.
ExtractIdle == in_text = << >> /\ extracted = NotCalled

\* A dict with no key.
EmptyDict == [k \in {} |-> 0]

NoResult == [doi |-> "-", is_retracted |-> FALSE, error |-> "None", reason |-> "None"]

\* No RetractionChecker is in use.
RetractIdle ==
    cache = EmptyDict /\ results = EmptyDict /\ returned = NoResult /\ lookups = 0 /\ nchecks = 0

\* No download is running.
DownloadIdle ==
    /\ urls_arg = << >> /\ urls = << >> /\ dpc = "idle" /\ dl_tasks = << >>
    /\ writing = {} /\ files = {}

NoReport == [format |-> "none", summary |-> EmptyDict]

\* No command-line run is going on.
CliIdle ==
    /\ cli_args = [text |-> FALSE, json |-> FALSE, check_retractions |-> FALSE]
    /\ cli_found = EmptyDict /\ pdf_summary = EmptyDict /\ report = NoReport /\ cli_pc = "idle"

LateIdle == DownloadIdle /\ CliIdle

MoreIdle == ExtractIdle /\ RetractIdle /\ LateIdle

CallersIdle == OpenIdle /\ BatchIdle /\ MoreIdle

\* Task arguments: one the callable raises on, one it returns normally on.
Args == {0, 1}
TaskIds == 1 .. MaxTasks

\* The callable of the tests' error-recovery workflow: every 3rd operation fails.
Raises(arg) == arg % 3 = 0

(***************************************************************************)
(* queue.Queue as ThreadPool uses it.                                      *)
(***************************************************************************)
maxsizeOfPool(n) == n

\* maxsize of the pool's queue; 0 is Python's "no limit".
maxsize(n) == 0

full(q, n) == maxsize(n) > 0 /\ Len(q) >= maxsize(n)

\* Queue.put: append and count the task as unfinished.
put(q, t) == Append(q, t)

\* Queue.get: the head leaves the queue.
get(q) == Tail(q)

\* Queue.task_done: one unfinished task less.
task_done(u) == u - 1

join_readyEarly(u) == u <= 1

\* Queue.join returns when no task is unfinished.
join_ready(u) == u = 0

(***************************************************************************)
(* ThreadPool.__init__: num_threads persistent workers.                    *)
(***************************************************************************)
WorkersOneMore(n) == 1 .. (n + 1)

Workers(n) == 1 .. n

AllWorkers == 1 .. (MaxWorkers + 1)

WorkerDiesOnRaise(raised) == IF raised THEN "dead" ELSE "get"

WorkerRunsOneTask(raised) == "dead"

\* Worker.run after the callable returned (raised = FALSE) or raised:
\* the exception is caught and printed, and the loop goes on.
WorkerAfterTask(raised) == "get"

\* Worker.run: task_done() runs in every case.
UnfinishedAfterTask(u, raised) == task_done(u)

QueueRetryOnRaise(q, t, raised) == IF raised THEN Append(q, t) ELSE q

\* Worker.run: a task is never put back on the queue.
QueueAfterTask(q, t, raised) == q

Queued(t) == \E i \in 1 .. Len(tasks) : tasks[i] = t
Running(t) == \E w \in AllWorkers : wpc[w] = "run" /\ wtask[w] = t
Submitted(t) == t \in 1 .. Len(task)
Finished(t) == Submitted(t) /\ ~Queued(t) /\ ~Running(t)

PoolInit ==
    /\ nworkers \in 1 .. MaxWorkers
    /\ tasks = << >>
    /\ unfinished = 0
    /\ task = << >>
    /\ wpc = [w \in AllWorkers |-> IF w \in Workers(nworkers) THEN "get" ELSE "none"]
    /\ wtask = [w \in AllWorkers |-> 0]
    /\ execs = [t \in TaskIds |-> << >>]
    /\ printed = 0
    /\ mpc = "idle"
    /\ mapRest = << >>
    /\ mapInputs = [a \in Args |-> 0]
    /\ snap = 0
    /\ prevSnap = 0
    /\ nrets = 0
    /\ ClassifyIdle /\ CollectIdle /\ CallersIdle

\* The enqueue shared by add_task and map: self.tasks.put((func, args, kargs)).
Enqueue(arg, via) ==
    /\ ~full(tasks, nworkers)
    /\ task' = Append(task, [arg |-> arg, via |-> via])
    /\ tasks' = put(tasks, Len(task) + 1)
    /\ unfinished' = unfinished + 1

Ready == mpc \in {"idle", "returned"}

\* ThreadPool.add_task, called by any thread at any moment (the thread that maps
\* and waits while it is between calls, or another submitter).
add_task(arg) ==
    /\ Len(task) + Len(mapRest) < MaxTasks
    /\ Enqueue(arg, "add")
    /\ UNCHANGED <<nworkers, wpc, wtask, execs, printed, mpc, mapRest, mapInputs, snap, prevSnap, nrets>>
    /\ UNCHANGED <<classifyVars, collectVars, callVars>>

MapElementsDedup(xs) ==
    SelectSeq([i \in 1 .. Len(xs) |-> IF \E j \in 1 .. (i - 1) : xs[j] = xs[i]
                                       THEN << >> ELSE << xs[i] >>],
              LAMBDA e : e # << >>)

\* map's loop "for args in args_list" visits every element, duplicates included;
\* each turn calls add_task(func, args) with the element as the single argument.
MapElements(xs) == [i \in 1 .. Len(xs) |-> << xs[i] >>]

\* ThreadPool.map(func, args_list): entered with the iterable xs.
map_call(xs) ==
    /\ Ready
    /\ Len(task) + Len(MapElements(xs)) <= MaxTasks
    /\ mapRest' = MapElements(xs)
    /\ mapInputs' = [a \in Args |-> mapInputs[a] + Cardinality({i \in 1 .. Len(xs) : xs[i] = a})]
    /\ mpc' = IF MapElements(xs) = << >> THEN "idle" ELSE "mapping"
    /\ UNCHANGED <<nworkers, tasks, unfinished, task, wpc, wtask, execs, printed, snap, prevSnap, nrets>>
    /\ UNCHANGED <<classifyVars, collectVars, callVars>>

\* One turn of map's loop: add_task(func, args) for the next element.
map_step ==
    /\ mpc = "mapping"
    /\ mapRest # << >>
    /\ Enqueue(Head(mapRest)[1], "map")
    /\ mapRest' = Tail(mapRest)
    /\ mpc' = IF Tail(mapRest) = << >> THEN "idle" ELSE "mapping"
    /\ UNCHANGED <<nworkers, wpc, wtask, execs, printed, mapInputs, snap, prevSnap, nrets>>
    /\ UNCHANGED <<classifyVars, collectVars, callVars>>

\* ThreadPool.wait_completion is entered: self.tasks.join() starts waiting.
wait_call ==
    /\ Ready
    /\ nrets < MaxWaits
    /\ mpc' = "waiting"
    /\ snap' = Len(task)
    /\ prevSnap' = snap
    /\ UNCHANGED <<nworkers, tasks, unfinished, task, wpc, wtask, execs, printed,
                   mapRest, mapInputs, nrets>>
    /\ UNCHANGED <<classifyVars, collectVars, callVars>>

\* self.tasks.join() returns, and wait_completion with it.
wait_return ==
    /\ mpc = "waiting"
    /\ join_ready(unfinished)
    /\ mpc' = "returned"
    /\ nrets' = nrets + 1
    /\ UNCHANGED <<nworkers, tasks, unfinished, task, wpc, wtask, execs, printed,
                   mapRest, mapInputs, snap, prevSnap>>
    /\ UNCHANGED <<classifyVars, collectVars, callVars>>

\* Worker.run: func, args, kargs = self.tasks.get(); the callable starts.
worker_get(w) ==
    /\ wpc[w] = "get"
    /\ tasks # << >>
    /\ wtask' = [wtask EXCEPT ![w] = Head(tasks)]
    /\ tasks' = get(tasks)
    /\ execs' = [execs EXCEPT ![Head(tasks)] = Append(@, w)]
    /\ wpc' = [wpc EXCEPT ![w] = "run"]
    /\ UNCHANGED <<nworkers, unfinished, task, printed, mpc, mapRest, mapInputs, snap, prevSnap, nrets>>
    /\ UNCHANGED <<classifyVars, collectVars, callVars>>

\* Worker.run: the callable returns or raises; except: print(e); task_done().
worker_finish(w) ==
    /\ wpc[w] = "run"
    /\ LET t == wtask[w]
           raised == Raises(task[t].arg)
       IN  /\ printed' = IF raised THEN printed + 1 ELSE printed
           /\ unfinished' = UnfinishedAfterTask(unfinished, raised)
           /\ tasks' = QueueAfterTask(tasks, t, raised)
           /\ wpc' = [wpc EXCEPT ![w] = WorkerAfterTask(raised)]
    /\ wtask' = [wtask EXCEPT ![w] = 0]
    /\ UNCHANGED <<nworkers, task, execs, mpc, mapRest, mapInputs, snap, prevSnap, nrets>>
    /\ UNCHANGED <<classifyVars, collectVars, callVars>>

\* The iterables map is called with: every sequence of arguments that fits.
MapInputsOf == UNION {[1 .. n -> Args] : n \in 0 .. MaxTasks}

PoolNext ==
    \/ \E a \in Args : add_task(a)
    \/ \E xs \in MapInputsOf : map_call(xs)
    \/ map_step
    \/ wait_call
    \/ wait_return
    \/ \E w \in AllWorkers : worker_get(w)
    \/ \E w \in AllWorkers : worker_finish(w)

Spec == PoolInit /\ [][PoolNext]_vars

(***************************************************************************)
(* Text.  A string is a sequence of one-character strings.  The texts of   *)
(* the model hold no line break: each of clean_url_text's line-joining     *)
(* substitutions needs a "\n" to match and leaves such a text unchanged.   *)
(***************************************************************************)
LowerCase == <<"a", "b", "c", "d", "e", "f", "g", "h", "i", "j", "k", "l", "m",
               "n", "o", "p", "q", "r", "s", "t", "u", "v", "w", "x", "y", "z">>
UpperCase == <<"A", "B", "C", "D", "E", "F", "G", "H", "I", "J", "K", "L", "M",
               "N", "O", "P", "Q", "R", "S", "T", "U", "V", "W", "X", "Y", "Z">>
Digits == {"0", "1", "2", "3", "4", "5", "6", "7", "8", "9"}
Letters == {LowerCase[i] : i \in 1 .. 26} \cup {UpperCase[i] : i \in 1 .. 26}

\* str.lower() on one character.
LowerChar(c) ==
    IF \E i \in 1 .. 26 : UpperCase[i] = c
    THEN LowerCase[CHOOSE i \in 1 .. 26 : UpperCase[i] = c]
    ELSE c

\* str.lower()
Lower(s) == [i \in 1 .. Len(s) |-> LowerChar(s[i])]

\* The regex classes \s, \d and \w.
IsSpace(c) == c \in {" ", "\t", "\n", "\r", "\f"}
IsDigit(c) == c \in Digits
IsWord(c) == c \in Letters \cup Digits \cup {"_"}

\* s holds the literal lit at position i.
LitAt(s, i, lit) ==
    /\ i >= 1
    /\ i + Len(lit) - 1 <= Len(s)
    /\ \A k \in 1 .. Len(lit) : s[i + k - 1] = lit[k]

\* The same under re.IGNORECASE, for a lower-case literal.
LitAtI(s, i, lit) ==
    /\ i >= 1
    /\ i + Len(lit) - 1 <= Len(s)
    /\ \A k \in 1 .. Len(lit) : LowerChar(s[i + k - 1]) = lit[k]

\* s[i .. j-1]
Slice(s, i, j) == SubSeq(s, i, j - 1)

\* "needle in hay" of two strings.
Contains(hay, needle) ==
    \E i \in 1 .. (Len(hay) - Len(needle) + 1) : LitAt(hay, i, needle)

\* The position after the longest run of characters of the set cls that starts at i
\* (a greedy cls*), for the complement class when neg.
RunEnd(s, i, cls, neg) ==
    CHOOSE j \in i .. (Len(s) + 1) :
        /\ \A k \in i .. (j - 1) : (s[k] \in cls) # neg
        /\ j <= Len(s) => ((s[j] \in cls) = neg)

Spaces == {" ", "\t", "\n", "\r", "\f"}

\* str.strip(chars)
StripChars(s, chars) ==
    IF \A i \in 1 .. Len(s) : s[i] \in chars THEN << >>
    ELSE LET a == CHOOSE i \in 1 .. Len(s) :
                     s[i] \notin chars /\ \A k \in 1 .. (i - 1) : s[k] \in chars
             b == CHOOSE i \in 1 .. Len(s) :
                     s[i] \notin chars /\ \A k \in (i + 1) .. Len(s) : s[k] \in chars
         IN  SubSeq(s, a, b)

\* re.sub(r'[ \t]+', ' ', text): each run of blanks becomes one space.
RECURSIVE CollapseBlanks(_)
CollapseBlanks(s) ==
    IF s = << >> THEN << >>
    ELSE IF Head(s) \in {" ", "\t"}
         THEN << " " >> \o CollapseBlanks(Slice(s, RunEnd(s, 1, {" ", "\t"}, FALSE), Len(s) + 1))
         ELSE << Head(s) >> \o CollapseBlanks(Tail(s))

HasNewline(s) == \E i \in 1 .. Len(s) : s[i] = "\n"

\* clean_url_text on a text without line breaks: form feeds become spaces, runs of
\* blanks collapse, the ends are stripped.
clean_url_text(text) ==
    IF text = << >> THEN text
    ELSE StripChars(CollapseBlanks([i \in 1 .. Len(text) |->
                                       IF text[i] = "\f" THEN " " ELSE text[i]]),
                    Spaces)

None == << 0, 0, 0 >>

\* ARXIV_REGEX, arxiv:\s?([^\s,]+), tried at position i: <<start of the group, its
\* end, end of the match>>, or None.  The pattern has no IGNORECASE.
ArxivRegexAt(s, i) ==
    IF ~LitAt(s, i, <<"a", "r", "x", "i", "v", ":">>) THEN None
    ELSE LET j == i + 6
             g == IF j <= Len(s) /\ IsSpace(s[j]) THEN j + 1 ELSE j
             e == RunEnd(s, g, Spaces \cup {","}, TRUE)
         IN  IF e > g THEN << g, e, e >> ELSE None

\* ARXIV_REGEX2, arxiv.org/abs/([^\s,]+): its "." matches any character but "\n".
ArxivRegex2At(s, i) ==
    IF ~(/\ LitAt(s, i, <<"a", "r", "x", "i", "v">>)
         /\ i + 5 <= Len(s) /\ s[i + 5] # "\n"
         /\ LitAt(s, i + 6, <<"o", "r", "g", "/", "a", "b", "s", "/">>)) THEN None
    ELSE LET g == i + 14
             e == RunEnd(s, g, Spaces \cup {","}, TRUE)
         IN  IF e > g THEN << g, e, e >> ELSE None

\* The DOI group ([0-9]{2}\.[0-9]{4,}/[^\s,;)\]}>]+) at position g: its end, or 0.
DoiStop == Spaces \cup {",", ";", ")", "]", "}", ">"}

DoiGroupEnd(s, g) ==
    IF ~(/\ g + 2 <= Len(s)
         /\ IsDigit(s[g]) /\ IsDigit(s[g + 1]) /\ s[g + 2] = ".") THEN 0
    ELSE LET d == RunEnd(s, g + 3, Digits, FALSE)
         IN  IF ~(d - (g + 3) >= 4 /\ d <= Len(s) /\ s[d] = "/") THEN 0
             ELSE LET e == RunEnd(s, d + 1, DoiStop, TRUE)
                  IN  IF e > d + 1 THEN e ELSE 0

\* The end of the prefix (?:(?:https?://)?(?:dx\.)?doi\.org/|doi:?\s*) of DOI_REGEX
\* at position i for which the group follows, or 0.  Each branch fixes where the
\* group starts, so at most one of them matches.
DoiRegexPrefixEnds(s, i) ==
    LET h == IF LitAtI(s, i, <<"h", "t", "t", "p", "s", ":", "/", "/">>) THEN {i + 8}
             ELSE IF LitAtI(s, i, <<"h", "t", "t", "p", ":", "/", "/">>) THEN {i + 7}
             ELSE {}
        a == h \cup {i}
        b == a \cup {p + 3 : p \in {q \in a : LitAtI(s, q, <<"d", "x", ".">>)}}
        url == {p + 8 : p \in {q \in b : LitAtI(s, q, <<"d", "o", "i", ".", "o", "r", "g", "/">>)}}
        c == IF LitAtI(s, i, <<"d", "o", "i">>)
             THEN LET k == IF i + 3 <= Len(s) /\ s[i + 3] = ":" THEN {i + 3, i + 4} ELSE {i + 3}
                  IN  UNION {k1 .. RunEnd(s, k1, Spaces, FALSE) : k1 \in k}
             ELSE {}
    IN  url \cup c

DoiRegexAt(s, i) ==
    LET ok == {p \in DoiRegexPrefixEnds(s, i) : DoiGroupEnd(s, p) # 0}
    IN  IF ok = {} THEN None
        ELSE LET g == CHOOSE p \in ok : TRUE
             IN  << g, DoiGroupEnd(s, g), DoiGroupEnd(s, g) >>

\* DOI_REGEX2, doi:?\s+(group).
DoiRegex2At(s, i) ==
    IF ~LitAtI(s, i, <<"d", "o", "i">>) THEN None
    ELSE LET k == IF i + 3 <= Len(s) /\ s[i + 3] = ":" THEN {i + 3, i + 4} ELSE {i + 3}
             ok == {p \in UNION {(k1 + 1) .. RunEnd(s, k1, Spaces, FALSE) : k1 \in k} :
                       DoiGroupEnd(s, p) # 0}
         IN  IF ok = {} THEN None
             ELSE LET g == CHOOSE p \in ok : TRUE
                  IN  << g, DoiGroupEnd(s, g), DoiGroupEnd(s, g) >>

\* DOI_REGEX3, [\(\[]doi:?\s*(group)[\)\]].
DoiRegex3At(s, i) ==
    IF ~(i <= Len(s) /\ s[i] \in {"(", "["}) THEN None
    ELSE IF ~LitAtI(s, i + 1, <<"d", "o", "i">>) THEN None
    ELSE LET k == IF i + 4 <= Len(s) /\ s[i + 4] = ":" THEN {i + 4, i + 5} ELSE {i + 4}
             ok == {p \in UNION {k1 .. RunEnd(s, k1, Spaces, FALSE) : k1 \in k} :
                       /\ DoiGroupEnd(s, p) # 0
                       /\ DoiGroupEnd(s, p) <= Len(s)
                       /\ s[DoiGroupEnd(s, p)] \in {")", "]"}}
         IN  IF ok = {} THEN None
             ELSE LET g == CHOOSE p \in ok : TRUE
                  IN  << g, DoiGroupEnd(s, g), DoiGroupEnd(s, g) + 1 >>

\* COMMON_TLDS: the alternatives of the top-level-domain group.
COMMON_TLDS == {
    <<"c", "o", "m">>, <<"n", "e", "t">>, <<"o", "r", "g">>, <<"e", "d", "u">>,
    <<"g", "o", "v">>, <<"m", "i", "l">>, <<"i", "n", "t">>, <<"a", "e", "r", "o">>,
    <<"a", "s", "i", "a">>, <<"b", "i", "z">>, <<"c", "a", "t">>, <<"c", "o", "o", "p">>,
    <<"i", "n", "f", "o">>, <<"j", "o", "b", "s">>, <<"m", "o", "b", "i">>,
    <<"m", "u", "s", "e", "u", "m">>, <<"n", "a", "m", "e">>, <<"p", "o", "s", "t">>,
    <<"p", "r", "o">>, <<"t", "e", "l">>, <<"t", "r", "a", "v", "e", "l">>, <<"x", "x", "x">>,
    <<"i", "o">>, <<"a", "i">>, <<"c", "o">>, <<"u", "k">>, <<"d", "e">>, <<"j", "p">>,
    <<"f", "r">>, <<"a", "u">>, <<"c", "a">>, <<"b", "r">>, <<"r", "u">>, <<"c", "n">>,
    <<"i", "n">>, <<"m", "x">>, <<"i", "t">>, <<"e", "s">>, <<"n", "l">>, <<"b", "e">>,
    <<"c", "h">>, <<"s", "e">>, <<"n", "o">>, <<"d", "k">>, <<"f", "i">>, <<"p", "l">>,
    <<"c", "z">>, <<"a", "t">>, <<"h", "u">>, <<"g", "r">>, <<"p", "t">>, <<"i", "e">>,
    <<"r", "o">>, <<"b", "g">>, <<"h", "r">>, <<"s", "i">>, <<"s", "k">>, <<"l", "t">>,
    <<"l", "v">>, <<"e", "e">>, <<"l", "u">>, <<"m", "t">>, <<"c", "y">>, <<"i", "s">>,
    <<"l", "i">>, <<"a", "d">>, <<"m", "c">>, <<"s", "m">>, <<"v", "a">>, <<"m", "d">>,
    <<"m", "e">>, <<"r", "s">>, <<"m", "k">>, <<"b", "a">>, <<"a", "l">>, <<"b", "y">>,
    <<"u", "a">>, <<"k", "z">>, <<"k", "g">>, <<"t", "j">>, <<"t", "m">>, <<"u", "z">>,
    <<"a", "m">>, <<"a", "z">>, <<"g", "e">>, <<"t", "r">>, <<"i", "l">>, <<"l", "b">>,
    <<"s", "y">>, <<"j", "o">>, <<"s", "a">>, <<"a", "e">>, <<"k", "w">>, <<"q", "a">>,
    <<"b", "h">>, <<"o", "m">>, <<"y", "e">>, <<"i", "q">>, <<"i", "r">>, <<"a", "f">>,
    <<"p", "k">>, <<"b", "d">>, <<"l", "k">>, <<"m", "v">>, <<"n", "p">>, <<"b", "t">>,
    <<"m", "m">>, <<"t", "h">>, <<"l", "a">>, <<"k", "h">>, <<"v", "n">>, <<"m", "y">>,
    <<"s", "g">>, <<"b", "n">>, <<"i", "d">>, <<"p", "h">>, <<"t", "w">>, <<"k", "r">>,
    <<"k", "p">>, <<"m", "n">>, <<"h", "k">>, <<"m", "o">>, <<"f", "m">>, <<"p", "w">>,
    <<"m", "h">>, <<"m", "p">>, <<"g", "u">>, <<"a", "s">>, <<"v", "i">>, <<"p", "r">>,
    <<"t", "c">>, <<"v", "g">>, <<"a", "g">>, <<"d", "m">>, <<"g", "d">>, <<"k", "n">>,
    <<"l", "c">>, <<"v", "c">>, <<"b", "b">>, <<"t", "t">>, <<"j", "m">>, <<"h", "t">>,
    <<"d", "o">>, <<"c", "u">>, <<"b", "s">>, <<"b", "z">>, <<"g", "t">>, <<"s", "v">>,
    <<"h", "n">>, <<"n", "i">>, <<"c", "r">>, <<"p", "a">>, <<"v", "e">>, <<"g", "y">>,
    <<"s", "r">>, <<"e", "c">>, <<"p", "e">>, <<"b", "o">>, <<"p", "y">>, <<"u", "y">>,
    <<"a", "r">>, <<"c", "l">>, <<"f", "k">>, <<"g", "s">>}

\* "\b" between positions k-1 and k: exactly one of the two is a word character.
WordAt(s, k) == k >= 1 /\ k <= Len(s) /\ IsWord(s[k])
WordBoundary(s, k) == WordAt(s, k - 1) # WordAt(s, k)

\* [\w.,@?^=%&:/~+#-] and [\w@?^=%&/~+#-]
PathChars == Letters \cup Digits \cup
             {"_", ".", ",", "@", "?", "^", "=", "%", "&", ":", "/", "~", "+", "#", "-"}
PathLast == PathChars \ {".", ",", ":"}
DomainChars == Letters \cup Digits \cup {"_", "-", "."}
LabelChars == Letters \cup Digits \cup {"_", "-"}

\* The optional path (?:/(?:[...]*[...])?)? at position q: the ways it can match,
\* as <<preference, end>>; the engine prefers the longest run of path characters,
\* then the bare "/", then no path.
PathOptions(s, q) ==
    {<< 0, q >>} \cup
    (IF q <= Len(s) /\ s[q] = "/"
     THEN {<< 1, q + 1 >>} \cup
          {<< m + 2, q + 2 + m >> :
              m \in {n \in 0 .. (RunEnd(s, q + 1, PathChars, FALSE) - (q + 1)) :
                        q + 1 + n <= Len(s) /\ s[q + 1 + n] \in PathLast}}
     ELSE {})

\* The optional port (?::\d+)? at position p, as <<preference, end>>.
PortOptions(s, p) ==
    {<< 0, p >>} \cup
    (IF p <= Len(s) /\ s[p] = ":"
     THEN {<< k, p + 1 + k >> : k \in 1 .. (RunEnd(s, p + 1, Digits, FALSE) - (p + 1))}
     ELSE {})

\* Lexicographic order of preference triples.
Prefer(a, b) ==
    \/ a[1] > b[1]
    \/ a[1] = b[1] /\ a[2] > b[2]
    \/ a[1] = b[1] /\ a[2] = b[2] /\ a[3] >= b[3]

Best(cands) == CHOOSE c \in cands : \A c2 \in cands : Prefer(c, c2)

\* First branch of URL_REGEX at i: https?://, a domain, an optional port, an
\* optional path, and "\b" at the end.  Candidates are <<domain length, port
\* preference, path preference, end>>.
UrlSchemeCands(s, i) ==
    LET p0 == IF LitAtI(s, i, <<"h", "t", "t", "p", "s", ":", "/", "/">>) THEN i + 8
              ELSE IF LitAtI(s, i, <<"h", "t", "t", "p", ":", "/", "/">>) THEN i + 7
              ELSE 0
    IN  IF p0 = 0 THEN {}
        ELSE UNION {UNION {{<< d, po[1], pa[1], pa[2] >> :
                               pa \in {x \in PathOptions(s, po[2]) : WordBoundary(s, x[2])}} :
                           po \in PortOptions(s, p0 + d)} :
                    d \in 1 .. (RunEnd(s, p0, DomainChars, FALSE) - p0)}

\* The labels (?:[-\w]+\.)+ from i up to t: non-empty labels, each closed by ".".
LabelsUpTo(s, i, t) ==
    /\ t > i + 1
    /\ s[t - 1] = "."
    /\ \A k \in i .. (t - 1) : s[k] \in DomainChars
    /\ s[i] # "."
    /\ \A k \in i .. (t - 2) : ~(s[k] = "." /\ s[k + 1] = ".")

\* Second branch at i: not after a word character or "@", labels, a top-level
\* domain, an optional path, and "\b".  Candidates are <<start of the top-level
\* domain, 0, path preference, end>>.
UrlDomainCands(s, i) ==
    IF ~(i <= Len(s) /\ s[i] \in LabelChars
         /\ ~(i > 1 /\ (IsWord(s[i - 1]) \/ s[i - 1] = "@"))) THEN {}
    ELSE UNION {UNION {{<< t, 0, pa[1], pa[2] >> :
                           pa \in {x \in PathOptions(s, t + Len(tld)) : WordBoundary(s, x[2])}} :
                       tld \in {x \in COMMON_TLDS : LitAtI(s, t, x)}} :
                t \in {u \in (i + 2) .. Len(s) : LabelsUpTo(s, i, u)}}

\* URL_REGEX tried at position i: "\b", then the first branch that matches.
UrlRegexAt(s, i) ==
    IF ~WordBoundary(s, i) THEN None
    ELSE IF UrlSchemeCands(s, i) # {}
         THEN << i, Best(UrlSchemeCands(s, i))[4], Best(UrlSchemeCands(s, i))[4] >>
    ELSE IF UrlDomainCands(s, i) # {}
         THEN << i, Best(UrlDomainCands(s, i))[4], Best(UrlDomainCands(s, i))[4] >>
    ELSE None

\* One pattern of the extractor tried at position i.
RegexAt(rx, s, i) ==
    CASE rx = "ARXIV_REGEX" -> ArxivRegexAt(s, i)
      [] rx = "ARXIV_REGEX2" -> ArxivRegex2At(s, i)
      [] rx = "DOI_REGEX" -> DoiRegexAt(s, i)
      [] rx = "DOI_REGEX2" -> DoiRegex2At(s, i)
      [] rx = "DOI_REGEX3" -> DoiRegex3At(s, i)
      [] rx = "URL_REGEX" -> UrlRegexAt(s, i)

\* re.findall: the groups of the matches found scanning from position i on, left to
\* right, each search resuming where the previous match ended.
RECURSIVE FindAll(_, _, _)
\* The scan after the attempt m at position i.
FindAllFrom(rx, s, i, m) ==
    IF m = None THEN FindAll(rx, s, i + 1)
    ELSE {Slice(s, m[1], m[2])} \cup FindAll(rx, s, m[3])

FindAll(rx, s, i) ==
    IF i > Len(s) THEN {}
    ELSE FindAllFrom(rx, s, i, RegexAt(rx, s, i))

\* extract_arxiv: both patterns on the cleaned text, periods stripped, as a set.
ArxivIn(cleaned_text) ==
    {StripChars(r, {"."}) : r \in FindAll("ARXIV_REGEX", cleaned_text, 1)
                                   \cup FindAll("ARXIV_REGEX2", cleaned_text, 1)}

extract_arxiv(text) == ArxivIn(clean_url_text(text))

\* re.sub(r'[.,;:!?\'")\]}]+$', '', url)
TrailingPunct == {".", ",", ";", ":", "!", "?", "'", "\"", ")", "]", "}"}

StripTrailingPunct(url) ==
    IF \A i \in 1 .. Len(url) : url[i] \in TrailingPunct THEN << >>
    ELSE SubSeq(url, 1, CHOOSE b \in 1 .. Len(url) :
                            url[b] \notin TrailingPunct
                            /\ \A k \in (b + 1) .. Len(url) : url[k] \in TrailingPunct)

\* extract_urls: the matches of URL_REGEX in the cleaned text, trailing punctuation
\* removed, kept when they start with a scheme or hold a ".".
UrlsIn(cleaned_text) ==
    {url \in {StripTrailingPunct(u) : u \in FindAll("URL_REGEX", cleaned_text, 1)} :
        /\ url # << >>
        /\ \/ LitAt(url, 1, <<"h", "t", "t", "p", ":", "/", "/">>)
           \/ LitAt(url, 1, <<"h", "t", "t", "p", "s", ":", "/", "/">>)
           \/ Contains(url, << "." >>)}

extract_urls(text) == UrlsIn(clean_url_text(text))

DoiValidAlways(doi) == TRUE

\* re.match(r'^10\.\d{4,}/\S+', doi)
DoiValid(doi) ==
    /\ LitAt(doi, 1, <<"1", "0", ".">>)
    /\ LET d == RunEnd(doi, 4, Digits, FALSE)
       IN  /\ d - 4 >= 4
           /\ d + 1 <= Len(doi)
           /\ doi[d] = "/"
           /\ ~IsSpace(doi[d + 1])

\* extract_doi: the three patterns on the cleaned text; each candidate is stripped
\* of trailing punctuation and kept only if it has the shape of a DOI.
DoisIn(cleaned_text) ==
    {doi \in {StripChars(d, {".", ",", ";", ":", "!", "?"}) :
                 d \in FindAll("DOI_REGEX", cleaned_text, 1)
                         \cup FindAll("DOI_REGEX2", cleaned_text, 1)
                         \cup FindAll("DOI_REGEX3", cleaned_text, 1)} :
        doi # << >> /\ DoiValid(doi)}

extract_doi(text) == IF text = << >> THEN {} ELSE DoisIn(clean_url_text(text))

\* "$" without MULTILINE: the end of the string, or just before a final "\n".
AtEnd(s, k) == k = Len(s) + 1 \/ (k = Len(s) /\ s[k] = "\n")

\* pdf_regex.search(s) for pdf_regex = \.pdf(:?\?.*)?$ : ".pdf", then optionally
\* an optional ":", a "?" and any characters but "\n", then the end.
PdfRegexSearch(s) ==
    \E i \in 1 .. Len(s) :
        /\ LitAt(s, i, <<".", "p", "d", "f">>)
        /\ \/ AtEnd(s, i + 4)
           \/ \E q \in {i + 4} \cup (IF i + 4 <= Len(s) /\ s[i + 4] = ":" THEN {i + 5} ELSE {}) :
                 /\ q <= Len(s) /\ s[q] = "?"
                 /\ \E e \in (q + 1) .. (Len(s) + 1) :
                       AtEnd(s, e) /\ \A k \in (q + 1) .. (e - 1) : s[k] # "\n"

\* No pool is in use: one idle worker and nothing submitted.
PoolIdle ==
    /\ nworkers = 1 /\ tasks = << >> /\ unfinished = 0 /\ task = << >>
    /\ wpc = [w \in AllWorkers |-> IF w \in Workers(1) THEN "get" ELSE "none"]
    /\ wtask = [w \in AllWorkers |-> 0] /\ execs = [t \in TaskIds |-> << >>]
    /\ printed = 0 /\ mpc = "idle" /\ mapRest = << >>
    /\ mapInputs = [a \in Args |-> 0] /\ snap = 0 /\ prevSnap = 0 /\ nrets = 0

(***************************************************************************)
(* backends.Reference: the classifier.                                     *)
(***************************************************************************)
\* Reference.__init__(uri, page): the objects the constructor can build.  The
\* identifier of an arxiv or doi reference is set.pop() of the extractor's result,
\* an element the code does not choose.
Reference(uri, page) ==
    IF PdfRegexSearch(Lower(uri))
    THEN {[ref |-> uri, reftype |-> "pdf", page |-> page]}
    ELSE IF extract_arxiv(uri) # {}
    THEN {[ref |-> a, reftype |-> "arxiv", page |-> page] : a \in extract_arxiv(uri)}
    ELSE IF extract_doi(uri) # {}
    THEN {[ref |-> d, reftype |-> "doi", page |-> page] : d \in extract_doi(uri)}
    ELSE {[ref |-> uri, reftype |-> "url", page |-> page]}

\* hash() of a str: a function of the characters alone, and not injective.
StrHash(s) == Len(s)

\* Reference.__hash__: hash(self.ref)
Reference_hash(a) == StrHash(a.ref)

Reference_eqWithPage(a, b) == a.ref = b.ref /\ a.page = b.page

\* Reference.__eq__: self.ref == other.ref
Reference_eq(a, b) == a.ref = b.ref

\* set.add: an element that hashes like and equals one already in the set is not
\* added, and the old one stays.
SetAdd(refs, r) ==
    IF \E x \in refs : Reference_hash(x) = Reference_hash(r) /\ Reference_eq(x, r)
    THEN refs
    ELSE refs \cup {r}

RECURSIVE Flatten(_)
Flatten(ss) == IF ss = << >> THEN << >> ELSE Head(ss) \o Flatten(Tail(ss))

\* The pieces raw strings are put together from.
RawFragments == <<
    <<"h", "t", "t", "p", ":", "/", "/", "a", ".", "c", "o", "m", "/", "x">>,
    <<"a", "r", "x", "i", "v", ":">>,
    <<"a", "r", "x", "i", "v", ".", "o", "r", "g", "/", "a", "b", "s", "/">>,
    <<"d", "o", "i", ":">>,
    <<"1", "0", ".", "1", "0", "0", "0", "/", "1">>,
    <<"1", "2">>,
    <<".", "p", "d", "f">>,
    <<".", "P", "D", "F">>,
    <<"?", "q">>,
    <<":", "?", "q">>,
    <<" ">>,
    <<" ", "d", "o", "i", ":", "1", "0", ".", "1", "0", "0", "0", "/", "1">>
>>

\* The raw strings given to the classifier: up to MaxFrags fragments in a row.
RawInputs ==
    {Flatten([i \in 1 .. Len(f) |-> RawFragments[f[i]]]) :
        f \in UNION {[1 .. n -> 1 .. Len(RawFragments)] : n \in 1 .. MaxFrags}}

ClassifyInit == raw \in RawInputs /\ ref = NoRef /\ PoolIdle /\ CollectIdle /\ CallersIdle

\* Reference(raw) is constructed.
Classify ==
    /\ ref = NoRef
    /\ ref' \in Reference(raw, 0)
    /\ UNCHANGED raw
    /\ UNCHANGED <<poolVars, collectVars, callVars>>

(***************************************************************************)
(* backends.PyMuPDFBackend.__init__: the document reference collector.     *)
(***************************************************************************)
\* str.split('\x0c')
RECURSIVE Split(_, _)
Split(s, sep) ==
    IF \A i \in 1 .. Len(s) : s[i] # sep THEN << s >>
    ELSE LET k == CHOOSE i \in 1 .. Len(s) : s[i] = sep /\ \A j \in 1 .. (i - 1) : s[j] # sep
         IN  << SubSeq(s, 1, k - 1) >> \o Split(SubSeq(s, k + 1, Len(s)), sep)

resolve_PDFObjRefKeepsMailto(obj_ref, page) == Reference(obj_ref, page)

\* resolve_PDFObjRef for the str that link.uri is: None for a mailto: URI, else
\* a Reference tagged with the current page.
resolve_PDFObjRef(obj_ref, page) ==
    IF LitAt(obj_ref, 1, <<"m", "a", "i", "l", "t", "o", ":">>) THEN {NoRef}
    ELSE Reference(obj_ref, page)

SuppressedIfEqual(url, found) == \E i \in 1 .. Len(found) : found[i] = url

\* any(url in ref for ref in foundLinks)
Suppressed(url, found) == \E i \in 1 .. Len(found) : Contains(found[i], url)

\* The pages documents are put together from: the page's text and its link
\* annotations in order.
PageChoices == {
    [text |-> << >>,
     links |-> << [uri |-> <<"h", "t", "t", "p", "s", ":", "/", "/", "a", ".", "c", "o", "m", "/", "d", "o", "c", ".", "p", "d", "f">>, is_external |-> TRUE] >>],
    [text |-> <<"S", "e", "e", " ", "D", "O", "I", ":", " ", "1", "0", ".", "1", "0", "0", "0", "/", "1", "8", "2">>,
     links |-> <<  >>],
    [text |-> <<"a", "r", "x", "i", "v", ":", "9", "9", "9", "9", ".", "0", "0", "0", "1">>,
     links |-> <<  >>],
    [text |-> <<"a", "t", " ", "h", "t", "t", "p", ":", "/", "/", "x", ".", "c", "o", "m", "/", "p", ".", "p", "d", "f", ".">>,
     links |-> << [uri |-> <<"h", "t", "t", "p", ":", "/", "/", "x", ".", "c", "o", "m", "/", "p", ".", "p", "d", "f">>, is_external |-> TRUE] >>],
    [text |-> <<"x", ".", "c", "o", "m", " ", "w", "w", "w", ".", "x", ".", "c", "o", "m", "/", "a">>,
     links |-> << [uri |-> <<"m", "a", "i", "l", "t", "o", ":", "a", "@", "x", ".", "c", "o", "m">>, is_external |-> TRUE], [uri |-> <<"#", "t", "o", "p">>, is_external |-> FALSE] >>],
    [text |-> <<"a", "r", "x", "i", "v", ".", "o", "r", "g", "/", "a", "b", "s", "/", "1", "2", ",", " ", "d", "o", "i", ":", "1", "0", ".", "1", "0", "0", "0", "/", "1", "8", "2">>,
     links |-> << [uri |-> <<"h", "t", "t", "p", "s", ":", "/", "/", "d", "o", "i", ".", "o", "r", "g", "/", "1", "0", ".", "1", "0", "0", "0", "/", "1", "8", "2">>, is_external |-> TRUE], [uri |-> <<"h", "t", "t", "p", ":", "/", "/", "a", "r", "x", "i", "v", ".", "o", "r", "g", "/", "a", "b", "s", "/", "1", "2">>, is_external |-> TRUE] >>]}

ExampleDoc == <<
    [text |-> << >>,
     links |-> << [uri |-> <<"h", "t", "t", "p", "s", ":", "/", "/", "a", ".", "c", "o", "m", "/", "d", "o", "c", ".", "p", "d", "f">>, is_external |-> TRUE] >>],
    [text |-> <<"S", "e", "e", " ", "D", "O", "I", ":", " ", "1", "0", ".", "1", "0", "0", "0", "/", "1", "8", "2">>,
     links |-> <<  >>],
    [text |-> <<"a", "r", "x", "i", "v", ":", "9", "9", "9", "9", ".", "0", "0", "0", "1">>,
     links |-> <<  >>]>>

\* The documents read: every sequence of 1 .. MaxPages pages.
Docs == UNION {[1 .. n -> PageChoices] : n \in 1 .. MaxPages}

\* ReaderBackend.__init__ and the first lines of PyMuPDFBackend.__init__.
CollectInit ==
    /\ doc \in Docs /\ cpc = "annot" /\ curpage = 0 /\ links = << >> /\ content = << >>
    /\ foundLinks = << >> /\ references = {} /\ segs = << >> /\ pageno = 0
    /\ urlsLeft = {} /\ arxivLeft = {} /\ doiLeft = {}
    /\ PoolIdle /\ ClassifyIdle /\ CallersIdle

\* "for page in doc": the next page's text is appended and its first link taken.
ReadPage ==
    /\ cpc = "annot"
    /\ links = << >>
    /\ curpage < Len(doc)
    /\ content' = content \o doc[curpage + 1].text \o << "\f" >>
    /\ curpage' = curpage + 1
    /\ links' = doc[curpage + 1].links
    /\ UNCHANGED <<doc, cpc, foundLinks, references, segs, pageno, urlsLeft, arxivLeft, doiLeft>>
    /\ UNCHANGED <<poolVars, classifyVars, callVars>>

\* One turn of "while link": an external link is resolved, its URI recorded in
\* foundLinks, and the Reference, if any, added.
AnnotLink ==
    /\ cpc = "annot"
    /\ links # << >>
    /\ LET link == Head(links) IN
         IF link.is_external
         THEN /\ \E refs \in resolve_PDFObjRef(link.uri, curpage) :
                    references' = IF refs = NoRef THEN references
                                  ELSE SetAdd(references, refs)
              /\ foundLinks' = Append(foundLinks, link.uri)
         ELSE UNCHANGED <<references, foundLinks>>
    /\ links' = Tail(links)
    /\ UNCHANGED <<doc, cpc, curpage, content, segs, pageno, urlsLeft, arxivLeft, doiLeft>>
    /\ UNCHANGED <<poolVars, classifyVars, callVars>>

\* The document reader raises while the links of a page are iterated (link.uri,
\* link.is_external or link.next fails).  The try/except around the loop is
\* commented out, so the exception leaves __init__; linkrot.__init__ turns it into
\* PDFInvalidError.
AnnotRaise ==
    /\ cpc = "annot"
    /\ links # << >>
    /\ cpc' = "raised"
    /\ UNCHANGED <<doc, curpage, links, content, foundLinks, references, segs, pageno,
                   urlsLeft, arxivLeft, doiLeft>>
    /\ UNCHANGED <<poolVars, classifyVars, callVars>>

\* The candidates of one page segment, as the three loops will visit them.
LoadSegment(ss, n) ==
    /\ urlsLeft' = extract_urls(ss[n])
    /\ arxivLeft' = extract_arxiv(ss[n])
    /\ doiLeft' = extract_doi(ss[n])

\* The page loop is over: self.text = content, and the text is split into
\* segments, the first of which is taken.
StartText ==
    /\ cpc = "annot"
    /\ links = << >>
    /\ curpage = Len(doc)
    /\ cpc' = "text"
    /\ segs' = Split(content, "\f")
    /\ pageno' = 1
    /\ LoadSegment(Split(content, "\f"), 1)
    /\ UNCHANGED <<doc, curpage, links, content, foundLinks, references>>
    /\ UNCHANGED <<poolVars, classifyVars, callVars>>

SeenNotAppended(seen, url) == seen

\* foundLinks.append(url)
SeenAppend(seen, url) == Append(seen, url)

\* One turn of "for url in extractor.extract_urls(page)", in the set's order.
TextUrl ==
    /\ cpc = "text"
    /\ \E url \in urlsLeft :
         /\ urlsLeft' = urlsLeft \ {url}
         /\ IF Suppressed(url, foundLinks)
            THEN UNCHANGED <<references, foundLinks>>
            ELSE /\ \E r \in Reference(url, pageno) : references' = SetAdd(references, r)
                 /\ foundLinks' = SeenAppend(foundLinks, url)
    /\ UNCHANGED <<doc, cpc, curpage, links, content, segs, pageno, arxivLeft, doiLeft>>
    /\ UNCHANGED <<poolVars, classifyVars, callVars>>

\* One turn of "for ref in extractor.extract_arxiv(page)".
TextArxiv ==
    /\ cpc = "text"
    /\ urlsLeft = {}
    /\ \E a \in arxivLeft :
         /\ arxivLeft' = arxivLeft \ {a}
         /\ \E r \in Reference(a, pageno) : references' = SetAdd(references, r)
    /\ UNCHANGED <<doc, cpc, curpage, links, content, foundLinks, segs, pageno, urlsLeft, doiLeft>>
    /\ UNCHANGED <<poolVars, classifyVars, callVars>>

\* One turn of "for ref in extractor.extract_doi(page)".
TextDoi ==
    /\ cpc = "text"
    /\ urlsLeft = {} /\ arxivLeft = {}
    /\ \E d \in doiLeft :
         /\ doiLeft' = doiLeft \ {d}
         /\ \E r \in Reference(d, pageno) : references' = SetAdd(references, r)
    /\ UNCHANGED <<doc, cpc, curpage, links, content, foundLinks, segs, pageno, urlsLeft, arxivLeft>>
    /\ UNCHANGED <<poolVars, classifyVars, callVars>>

\* The three loops of a segment are over: the next segment, or the end.
NextSegment ==
    /\ cpc = "text"
    /\ urlsLeft = {} /\ arxivLeft = {} /\ doiLeft = {}
    /\ IF pageno < Len(segs)
       THEN /\ pageno' = pageno + 1
            /\ LoadSegment(segs, pageno + 1)
            /\ UNCHANGED cpc
       ELSE /\ cpc' = "done"
            /\ UNCHANGED <<pageno, urlsLeft, arxivLeft, doiLeft>>
    /\ UNCHANGED <<doc, curpage, links, content, foundLinks, references, segs>>
    /\ UNCHANGED <<poolVars, classifyVars, callVars>>

CollectNext ==
    \/ ReadPage
    \/ AnnotLink
    \/ AnnotRaise
    \/ StartText
    \/ TextUrl
    \/ TextArxiv
    \/ TextDoi
    \/ NextSegment

(***************************************************************************)
(* backends.ReaderBackend: the views of the reference set.                 *)
(***************************************************************************)

\* The orders in which iterating a Python set can visit its elements.
RECURSIVE IterationOrders(_)
IterationOrders(refs) ==
    IF refs = {} THEN {<< >>}
    ELSE UNION {{<<r>> \o rest : rest \in IterationOrders(refs \ {r})} : r \in refs}

\* get_references: reftype None keeps every Reference (sort is not used here).
get_references(refs, reftype) ==
    IF reftype # "None" THEN {r \in refs : r.reftype = reftype} ELSE refs

DictAddOverwrite(ret, r) == (r.reftype :> <<r.ref>>) @@ ret

\* One round of the loop of get_references_as_dict: append to the list of the
\* Reference's kind, or start that list.
DictAdd(ret, r) ==
    IF r.reftype \in DOMAIN ret
    THEN [ret EXCEPT ![r.reftype] = Append(@, r.ref)]
    ELSE (r.reftype :> <<r.ref>>) @@ ret

RECURSIVE DictFrom(_, _)
DictFrom(order, ret) ==
    IF order = << >> THEN ret ELSE DictFrom(Tail(order), DictAdd(ret, Head(order)))

\* get_references_as_dict(reftype), the set being iterated in the given order;
\* summary["references"] is get_references_as_dict() of the finished reader.
get_references_as_dict(order, reftype) ==
    DictFrom(SelectSeq(order, LAMBDA r : reftype = "None" \/ r.reftype = reftype),
             [k \in {} |-> << >>])

\* linkrot.get_references_count
get_references_count(refs, reftype) == Cardinality(get_references(refs, reftype))

(***************************************************************************)
(* linkrot.__init__ (opening a document) and cli.main (its exit codes).    *)
(***************************************************************************)

\* cli.py: the error status codes.
ERROR_FILE_NOT_FOUND == 1
ERROR_DOWNLOAD == 2
ERROR_PDF_INVALID == 4

\* The arguments documents are opened with.
OpenArgs == {
    <<"a", "s", "d">>,
    <<"p", "a", "p", "e", "r", ".", "p", "d", "f">>,
    <<"x", ".", "c", "o", "m">>,
    <<"h", "t", "t", "p", ":", "/", "/", "a", ".", "c", "o", "m", "/", "x">>
}

\* self.is_url = len(extract_urls(uri))
is_url(u) == extract_urls(u) # {}

OpenInit ==
    /\ self_uri \in OpenArgs
    /\ env \in [isfile : BOOLEAN, fetch_ok : BOOLEAN, open_ok : BOOLEAN, parse_ok : BOOLEAN]
    /\ opc = "start" /\ error = "none" /\ exit_code = 0
    /\ PoolIdle /\ ClassifyIdle /\ CollectIdle /\ BatchIdle /\ MoreIdle

\* if self.is_url: urlopen(Request(uri)).read(), any Exception becoming
\* DownloadError.
OpenUrl ==
    /\ opc = "start"
    /\ is_url(self_uri)
    /\ IF env.fetch_ok
       THEN opc' = "stream" /\ error' = error
       ELSE opc' = "raised" /\ error' = "DownloadError"
    /\ UNCHANGED <<self_uri, env, exit_code>>
    /\ UNCHANGED <<poolVars, classifyVars, collectVars, batchVars, moreVars>>

\* else: FileNotFoundError unless os.path.isfile(uri); then open(uri, "rb"),
\* which no handler surrounds: when it fails, the builtin OSError it raises
\* (PermissionError, ...) leaves __init__ as it is.
OpenFile ==
    /\ opc = "start"
    /\ ~is_url(self_uri)
    /\ IF ~env.isfile THEN opc' = "raised" /\ error' = "FileNotFoundError"
       ELSE IF env.open_ok THEN opc' = "stream" /\ error' = error
       ELSE opc' = "raised" /\ error' = "OSError"
    /\ UNCHANGED <<self_uri, env, exit_code>>
    /\ UNCHANGED <<poolVars, classifyVars, collectVars, batchVars, moreVars>>

\* self.reader = PyMuPDFBackend(self.stream), any Exception becoming
\* PDFInvalidError; then the summary is built.
CreateReader ==
    /\ opc = "stream"
    /\ IF env.parse_ok
       THEN opc' = "ready" /\ error' = error
       ELSE opc' = "raised" /\ error' = "PDFInvalidError"
    /\ UNCHANGED <<self_uri, env, exit_code>>
    /\ UNCHANGED <<poolVars, classifyVars, collectVars, batchVars, moreVars>>

\* cli.main: the three except clauses around linkrot.linkrot(args.pdf); any
\* other exception is not caught.
MainExit ==
    /\ opc = "raised"
    /\ IF error = "FileNotFoundError"
         THEN opc' = "exited" /\ exit_code' = ERROR_FILE_NOT_FOUND
       ELSE IF error = "DownloadError"
         THEN opc' = "exited" /\ exit_code' = ERROR_DOWNLOAD
       ELSE IF error = "PDFInvalidError"
         THEN opc' = "exited" /\ exit_code' = ERROR_PDF_INVALID
       ELSE opc' = "uncaught" /\ exit_code' = exit_code
    /\ UNCHANGED <<self_uri, env, error>>
    /\ UNCHANGED <<poolVars, classifyVars, collectVars, batchVars, moreVars>>

OpenNext == OpenUrl \/ OpenFile \/ CreateReader \/ MainExit

SpecOpen == OpenInit /\ [][OpenNext]_vars

(***************************************************************************)
(* downloader.check_refs, downloader.download_urls, archive.archive_links: *)
(* the batch operations and the pool each of them runs its requests on.    *)
(***************************************************************************)

\* downloader.py: the default of the max_threads argument.
MAX_THREADS_DEFAULT == 7

\* The max_threads arguments the operations are called with.
MaxThreadsArgs == {1, MAX_THREADS_DEFAULT, 10}

\* The calls: archive_links has no max_threads argument.
Calls ==
    [op : {"check_refs", "download_urls"}, max_threads : MaxThreadsArgs, nrefs : 0 .. MaxRefs]
        \cup [op : {"archive_links"}, max_threads : {0}, nrefs : 0 .. MaxRefs]

\* The pool step that raises during the call, if any, and what it raises.
Faults ==
    {[stage |-> "none", exc |-> "none"]}
        \cup [stage : {"init", "map", "wait"}, exc : {"Exception", "KeyboardInterrupt"}]

PoolSizeFromArgument(c) == IF c.op = "archive_links" THEN 1 ELSE c.max_threads

\* ThreadPool(5) in check_refs and download_urls, ThreadPool(1) in archive_links.
PoolSize(c) == IF c.op = "archive_links" THEN 1 ELSE 5

BatchInit ==
    /\ call \in Calls
    /\ fault \in Faults
    /\ bpc = "call" /\ num_threads = 0 /\ queued = 0 /\ inflight = 0 /\ codes = 0
    /\ caught = "none" /\ result = "none"
    /\ PoolIdle /\ ClassifyIdle /\ CollectIdle /\ OpenIdle /\ MoreIdle

\* The part before the try block: download_urls asserts that there are urls.
BatchEnter ==
    /\ bpc = "call"
    /\ IF call.op = "download_urls" /\ call.nrefs = 0
       THEN bpc' = "escaped" /\ result' = "AssertionError"
       ELSE bpc' = "try" /\ result' = result
    /\ UNCHANGED <<call, fault, num_threads, queued, inflight, codes, caught>>
    /\ UNCHANGED <<poolVars, classifyVars, collectVars, openVars, moreVars>>

\* pool = ThreadPool(n); an exception is caught by the except clauses.
BatchPool ==
    /\ bpc = "try"
    /\ IF fault.stage = "init"
       THEN bpc' = "after" /\ caught' = fault.exc /\ num_threads' = num_threads
       ELSE bpc' = "pool" /\ caught' = caught /\ num_threads' = PoolSize(call)
    /\ UNCHANGED <<call, fault, queued, inflight, codes, result>>
    /\ UNCHANGED <<poolVars, classifyVars, collectVars, openVars, moreVars>>

\* pool.map(f, refs): one task per element.
BatchMap ==
    /\ bpc = "pool"
    /\ IF fault.stage = "map"
       THEN bpc' = "after" /\ caught' = fault.exc /\ queued' = queued
       ELSE bpc' = "mapped" /\ caught' = caught /\ queued' = call.nrefs
    /\ UNCHANGED <<call, fault, num_threads, inflight, codes, result>>
    /\ UNCHANGED <<poolVars, classifyVars, collectVars, openVars, moreVars>>

\* A worker of the pool that is not executing a task takes one from the queue.
\* The workers are daemon threads: they go on whatever the caller does.
BatchWorkerGet ==
    /\ queued > 0
    /\ inflight < num_threads
    /\ queued' = queued - 1
    /\ inflight' = inflight + 1
    /\ UNCHANGED <<call, fault, bpc, num_threads, codes, caught, result>>
    /\ UNCHANGED <<poolVars, classifyVars, collectVars, openVars, moreVars>>

CodesAppendLost(n) == n

\* codes[status_code].append(ref): the ref joins the bucket of its one status code.
CodesAppend(n) == n + 1

\* The task returns; check_url has appended its ref to codes[status_code].
BatchWorkerDone ==
    /\ inflight > 0
    /\ inflight' = inflight - 1
    /\ codes' = IF call.op = "check_refs" THEN CodesAppend(codes) ELSE codes
    /\ UNCHANGED <<call, fault, bpc, num_threads, queued, caught, result>>
    /\ UNCHANGED <<poolVars, classifyVars, collectVars, openVars, moreVars>>

\* pool.wait_completion(): returns when every task is done, or raises, which the
\* except clauses catch.
BatchWait ==
    /\ bpc = "mapped"
    /\ IF fault.stage = "wait"
       THEN caught' = fault.exc
       ELSE queued = 0 /\ inflight = 0 /\ caught' = caught
    /\ bpc' = "after"
    /\ UNCHANGED <<call, fault, num_threads, queued, inflight, codes, result>>
    /\ UNCHANGED <<poolVars, classifyVars, collectVars, openVars, moreVars>>

\* After the try block.  download_urls and archive_links return None.
\* check_refs builds its summary: with no status code recorded it returns
\* "\nSummary of link checker:"; with any, it evaluates "\n" + colorprint(...),
\* and colorprint returns None, so TypeError leaves check_refs.
BatchReturn ==
    /\ bpc = "after"
    /\ IF call.op # "check_refs" THEN bpc' = "returned" /\ result' = "None"
       ELSE IF codes = 0 THEN bpc' = "returned" /\ result' = "Summary of link checker:"
       ELSE bpc' = "escaped" /\ result' = "TypeError"
    /\ UNCHANGED <<call, fault, num_threads, queued, inflight, codes, caught>>
    /\ UNCHANGED <<poolVars, classifyVars, collectVars, openVars, moreVars>>

BatchNext ==
    \/ BatchEnter
    \/ BatchPool
    \/ BatchMap
    \/ BatchWorkerGet
    \/ BatchWorkerDone
    \/ BatchWait
    \/ BatchReturn

SpecBatch == BatchInit /\ [][BatchNext]_vars

(***************************************************************************)
(* extractor.extract_arxiv and extractor.extract_doi, called on a text.    *)
(***************************************************************************)

\* The pieces texts given to the extractors are put together from.
TextFragments == {
    <<"a", "r", "x", "i", "v", ":", "1", "2", "3", "4", ".", "5", "6", "7", "8">>,
    <<" ", "A", "r", "X", "i", "v", ":", "1", "2", "3", "4", ".", "5", "6", "7", "8">>,
    <<" ", "a", "r", "x", "i", "v", ".", "o", "r", "g", "/", "a", "b", "s", "/", "1", "2", ".">>,
    <<" ", "A", "R", "X", "I", "V", ".", "O", "R", "G", "/", "a", "b", "s", "/", "2", "0", "2", "3", ".", "1", "2", "3", "4", "5">>,
    <<" ", "a", "r", "x", "i", "v", ":", " ", ".", "1", "2", ",">>,
    <<" ", "d", "o", "i", ":", "1", "0", ".", "1", "0", "0", "0", "/", "1", "8", "2">>,
    <<" ", "h", "t", "t", "p", "s", ":", "/", "/", "d", "o", "i", ".", "o", "r", "g", "/", "1", "0", ".", "1", "0", "0", "0", "/", "1", "8", "2", ".">>,
    <<" ", "(", "D", "O", "I", ":", " ", "1", "0", ".", "1", "0", "0", "0", "/", "1", "8", "2", ")">>,
    <<" ", "D", "O", "I", " ", "1", "0", ".", "1", "2", "3", "4", "5", "/", "a", "b", ";">>,
    <<" ", "d", "o", "i", ":", "1", "2", ".", "1", "0", "0", "0", "/", "1">>,
    <<" ", "d", "o", "i", ":", "1", "0", ".", "1", "0", "0", "0", "/", ".">>,
    <<" ", "s", "e", "e">>
}

\* The texts: up to MaxFrags fragments in a row.
TextInputs == {Flatten(f) : f \in UNION {[1 .. n -> TextFragments] : n \in 0 .. MaxFrags}}

ExtractInit ==
    /\ in_text \in TextInputs
    /\ extracted = NotCalled
    /\ PoolIdle /\ ClassifyIdle /\ CollectIdle /\ OpenIdle /\ BatchIdle
    /\ RetractIdle /\ LateIdle

\* extract_arxiv(text) and extract_doi(text)
Extract ==
    /\ extracted = NotCalled
    /\ extracted' = [arxiv |-> extract_arxiv(in_text), doi |-> extract_doi(in_text)]
    /\ UNCHANGED in_text
    /\ UNCHANGED <<coreVars, retractVars, lateVars>>

SpecExtract == ExtractInit /\ [][Extract]_vars

(***************************************************************************)
(* retraction.RetractionChecker: check_doi with its cache, and the summary *)
(* of the results.                                                         *)
(***************************************************************************)

\* The DOIs check_doi is called with: "" and None are the empty ones.
EmptyDois == {"", "None"}
CheckedDois == EmptyDois \cup {"10.1000/1", "10.1000/2", "10.1000/3"}

\* What the lookup methods do when they are called: _check_via_api returns None
\* as it stands; each of _check_via_crossref and _check_metadata_indicators
\* returns None, returns the dict of a retraction, or lets an exception through.
Answers == [crossref : {"None", "retracted", "raises"},
            metadata : {"None", "retracted", "raises"}]

RunsMetadataAlways(r) == TRUE

\* if not result['is_retracted']: before Method 3.
RunsMetadata(r) == ~r.is_retracted

\* The result of the try block of check_doi for the answers a.
LookupResult(doi, a) ==
    LET r0 == [doi |-> doi, is_retracted |-> FALSE, error |-> "None", reason |-> "None"]
        r2 == IF a.crossref = "retracted"
              THEN [r0 EXCEPT !.is_retracted = TRUE, !.reason = "Detected via CrossRef metadata"]
              ELSE r0
    IN  IF a.crossref = "raises" THEN [r0 EXCEPT !.error = "Error checking DOI"]
        ELSE IF ~RunsMetadata(r2) THEN r2
        ELSE IF a.metadata = "raises" THEN [r2 EXCEPT !.error = "Error checking DOI"]
        ELSE IF a.metadata = "retracted"
             THEN [r2 EXCEPT !.is_retracted = TRUE, !.reason = "Retraction notice found"]
        ELSE r2

CacheUnlessError(c, doi, r) == IF r.error # "None" THEN c ELSE (doi :> r) @@ c

\* self.cache[doi] = result
CacheStore(c, doi, r) == (doi :> r) @@ c

RetractInit ==
    /\ RetractIdle
    /\ PoolIdle /\ ClassifyIdle /\ CollectIdle /\ OpenIdle /\ BatchIdle
    /\ ExtractIdle /\ LateIdle

\* check_doi(doi) with an empty DOI; check_multiple_dois stores what it returns.
CheckEmptyDoi(doi) ==
    /\ nchecks < MaxChecks
    /\ doi \in EmptyDois
    /\ returned' = [doi |-> doi, is_retracted |-> FALSE, error |-> "Empty DOI", reason |-> "None"]
    /\ results' = (doi :> returned') @@ results
    /\ nchecks' = nchecks + 1
    /\ UNCHANGED <<cache, lookups>>
    /\ UNCHANGED <<coreVars, extractVars, lateVars>>

\* check_doi(doi) with a DOI that is in the cache.
CheckCachedDoi(doi) ==
    /\ nchecks < MaxChecks
    /\ doi \notin EmptyDois
    /\ doi \in DOMAIN cache
    /\ returned' = cache[doi]
    /\ results' = (doi :> returned') @@ results
    /\ nchecks' = nchecks + 1
    /\ UNCHANGED <<cache, lookups>>
    /\ UNCHANGED <<coreVars, extractVars, lateVars>>

\* check_doi(doi) with a DOI that is not: rate limit, lookups, store.
CheckNewDoi(doi, a) ==
    /\ nchecks < MaxChecks
    /\ doi \notin EmptyDois
    /\ doi \notin DOMAIN cache
    /\ lookups' = lookups + 1
    /\ returned' = LookupResult(doi, a)
    /\ cache' = CacheStore(cache, doi, returned')
    /\ results' = (doi :> returned') @@ results
    /\ nchecks' = nchecks + 1
    /\ UNCHANGED <<coreVars, extractVars, lateVars>>

\* get_retraction_summary(results)
get_retraction_summary(rs) ==
    LET total_dois == Cardinality(DOMAIN rs)
        retracted_dois == {doi \in DOMAIN rs : rs[doi].is_retracted}
        error_dois == {doi \in DOMAIN rs : rs[doi].error # "None"}
    IN  [total_checked |-> total_dois,
         retracted_count |-> Cardinality(retracted_dois),
         error_count |-> Cardinality(error_dois),
         retracted_dois |-> retracted_dois,
         error_dois |-> error_dois,
         clean_count |-> total_dois - Cardinality(retracted_dois) - Cardinality(error_dois)]

RetractNext ==
    \E doi \in CheckedDois :
        \/ CheckEmptyDoi(doi)
        \/ CheckCachedDoi(doi)
        \/ \E a \in Answers : CheckNewDoi(doi, a)

SpecRetract == RetractInit /\ [][RetractNext]_vars

(***************************************************************************)
(* downloader.download_urls: the download tasks and the files they write.  *)
(***************************************************************************)
\* The URLs of the batches: two hosts with the same file name, a query string,
\* and another file name.
DownloadUrls == {
    <<"h", "t", "t", "p", ":", "/", "/", "a", ".", "c", "o", "m", "/", "x", ".", "p", "d", "f">>,
    <<"h", "t", "t", "p", ":", "/", "/", "b", ".", "c", "o", "m", "/", "x", ".", "p", "d", "f">>,
    <<"h", "t", "t", "p", ":", "/", "/", "a", ".", "c", "o", "m", "/", "x", ".", "p", "d", "f", "?", "v", "=", "2">>,
    <<"h", "t", "t", "p", ":", "/", "/", "a", ".", "c", "o", "m", "/", "y", ".", "p", "d", "f">>}

\* The output_directory argument.
OutputDirectory == <<"o", "u", "t">>

\* fn = url.split("/")[-1].split("?")[0]
FileName(url) ==
    LET parts == Split(url, "/") IN Split(parts[Len(parts)], "?")[1]

\* fn_download = os.path.join(output_directory, fn)
fn_download(url) == OutputDirectory \o <<"/">> \o FileName(url)

\* download_urls(urls, output_directory) with a non-empty list of urls.
DownloadInit ==
    /\ urls_arg \in UNION {[1 .. n -> DownloadUrls] : n \in 1 .. MaxUrls}
    /\ urls = << >> /\ dpc = "call" /\ dl_tasks = << >> /\ writing = {} /\ files = {}
    /\ PoolIdle /\ ClassifyIdle /\ CollectIdle /\ OpenIdle /\ BatchIdle
    /\ ExtractIdle /\ RetractIdle /\ CliIdle

\* urls = list(set(urls)), in whatever order the set is iterated; then
\* pool = ThreadPool(5); pool.map(download_url, urls).
DownloadMap ==
    /\ dpc = "call"
    /\ urls' \in IterationOrders({urls_arg[i] : i \in 1 .. Len(urls_arg)})
    /\ dl_tasks' = urls'
    /\ dpc' = "mapped"
    /\ UNCHANGED <<urls_arg, writing, files>>
    /\ UNCHANGED <<coreVars, extractVars, retractVars, cliVars>>

\* A free worker of the pool takes the next task: download_url(url) opens
\* fn_download for writing.
DownloadOpen ==
    /\ dpc = "mapped"
    /\ dl_tasks # << >>
    /\ Cardinality(writing) < PoolSize([op |-> "download_urls"])
    /\ writing' = writing \cup {[url |-> Head(dl_tasks), fn_download |-> fn_download(Head(dl_tasks))]}
    /\ files' = files \cup {fn_download(Head(dl_tasks))}
    /\ dl_tasks' = Tail(dl_tasks)
    /\ UNCHANGED <<urls_arg, urls, dpc>>
    /\ UNCHANGED <<coreVars, extractVars, retractVars, cliVars>>

\* The with block of a task ends: the file is closed and the task is done.
DownloadClose ==
    /\ \E t \in writing : writing' = writing \ {t}
    /\ UNCHANGED <<urls_arg, urls, dpc, dl_tasks, files>>
    /\ UNCHANGED <<coreVars, extractVars, retractVars, cliVars>>

\* pool.wait_completion() returns when every task is done.
DownloadReturn ==
    /\ dpc = "mapped"
    /\ dl_tasks = << >>
    /\ writing = {}
    /\ dpc' = "returned"
    /\ UNCHANGED <<urls_arg, urls, dl_tasks, writing, files>>
    /\ UNCHANGED <<coreVars, extractVars, retractVars, cliVars>>

DownloadNext ==
    \/ DownloadMap
    \/ DownloadOpen
    \/ DownloadClose
    \/ DownloadReturn

SpecDownload == DownloadInit /\ [][DownloadNext]_vars

(***************************************************************************)
(* cli.main: the report and the retraction check of a run.                 *)
(***************************************************************************)
\* The DOIs extract_doi can find in the text of the documents.
CliDois == {"10.1000/1", "10.1000/2"}

\* pdf.summary as linkrot.__init__ builds it.
DocumentSummary ==
    [source |-> "paper.pdf", metadata |-> "Title", references |-> "url: x.com"]

\* check_dois_for_retractions(dois) for DOIs whose checks give the results rs.
check_dois_for_retractions(rs) ==
    IF DOMAIN rs = {}
    THEN [results |-> EmptyDict, summary |-> [total_checked |-> 0, retracted_count |-> 0]]
    ELSE [results |-> rs, summary |-> get_retraction_summary(rs)]

\* A run on a readable document, without --check-links, --archive and
\* --download-pdfs.
CliInit ==
    /\ cli_args \in [text : BOOLEAN, json : BOOLEAN, check_retractions : BOOLEAN]
    /\ cli_found \in UNION {{[d \in D |-> LookupResult(d, f[d])] : f \in [D -> Answers]} :
                               D \in SUBSET CliDois}
    /\ pdf_summary = DocumentSummary
    /\ report = NoReport
    /\ cli_pc = "start"
    /\ PoolIdle /\ ClassifyIdle /\ CollectIdle /\ OpenIdle /\ BatchIdle
    /\ ExtractIdle /\ RetractIdle /\ DownloadIdle

\* if args.text: the text is written out and main returns.
CliTextOnly ==
    /\ cli_pc = "start"
    /\ cli_args.text
    /\ report' = [format |-> "text only", summary |-> EmptyDict]
    /\ cli_pc' = "done"
    /\ UNCHANGED <<cli_args, cli_found, pdf_summary>>
    /\ UNCHANGED <<coreVars, extractVars, retractVars, downloadVars>>

\* The report: json.dumps(pdf.summary) or get_text_output(pdf, args), which
\* reads pdf.summary['retraction_check'] if that key is there; written out.
CliReport ==
    /\ cli_pc = "start"
    /\ ~cli_args.text
    /\ report' = [format |-> IF cli_args.json THEN "json" ELSE "text", summary |-> pdf_summary]
    /\ cli_pc' = "reported"
    /\ UNCHANGED <<cli_args, cli_found, pdf_summary>>
    /\ UNCHANGED <<coreVars, extractVars, retractVars, downloadVars>>

\* if args.check_retractions: the DOIs of the text are checked, and the results
\* are stored in pdf.summary if args.json; then main ends.
CliCheckRetractions ==
    /\ cli_pc = "reported"
    /\ pdf_summary' =
          IF cli_args.check_retractions /\ DOMAIN cli_found # {} /\ cli_args.json
          THEN ("retraction_check" :> check_dois_for_retractions(cli_found)) @@ pdf_summary
          ELSE pdf_summary
    /\ cli_pc' = "done"
    /\ UNCHANGED <<cli_args, cli_found, report>>
    /\ UNCHANGED <<coreVars, extractVars, retractVars, downloadVars>>

CliNext ==
    \/ CliTextOnly
    \/ CliReport
    \/ CliCheckRetractions

SpecCli == CliInit /\ [][CliNext]_vars

SpecClassify == ClassifyInit /\ [][Classify]_vars

SpecCollect == CollectInit /\ [][CollectNext]_vars

\* Pages on which the order of the candidates can be seen: a text with two URLs
\* one of which is part of the other, and a page with annotations and arXiv and
\* DOI candidates.
OrderPages == {
    [text |-> <<"x", ".", "c", "o", "m", " ", "w", "w", "w", ".", "x", ".", "c", "o", "m", "/", "a">>,
     links |-> << >>],
    [text |-> <<"a", "r", "x", "i", "v", ".", "o", "r", "g", "/", "a", "b", "s", "/", "1", "2", ",", " ", "d", "o", "i", ":", "1", "0", ".", "1", "0", "0", "0", "/", "1", "8", "2">>,
     links |-> << [uri |-> <<"h", "t", "t", "p", "s", ":", "/", "/", "d", "o", "i", ".", "o", "r", "g", "/", "1", "0", ".", "1", "0", "0", "0", "/", "1", "8", "2">>, is_external |-> TRUE], [uri |-> <<"h", "t", "t", "p", ":", "/", "/", "a", "r", "x", "i", "v", ".", "o", "r", "g", "/", "a", "b", "s", "/", "1", "2">>, is_external |-> TRUE] >>]}

OrderDocs == UNION {[1 .. n -> OrderPages] : n \in 1 .. MaxPages}

\* The collector on the documents made of these pages.
OrderInit ==
    /\ doc \in OrderDocs /\ cpc = "annot" /\ curpage = 0 /\ links = << >> /\ content = << >>
    /\ foundLinks = << >> /\ references = {} /\ segs = << >> /\ pageno = 0
    /\ urlsLeft = {} /\ arxivLeft = {} /\ doiLeft = {}
    /\ PoolIdle /\ ClassifyIdle /\ CallersIdle

SpecOrder == OrderInit /\ [][CollectNext]_vars

\* Worker threads are scheduled by the operating system: a worker that can take or
\* finish a task eventually does, and a join() that can return eventually returns.
FairSpec ==
    /\ PoolInit /\ [][PoolNext]_vars
    /\ \A w \in AllWorkers : WF_vars(worker_get(w)) /\ WF_vars(worker_finish(w))
    /\ WF_vars(wait_return)

(***************************************************************************)
(* Properties of the worker pool.                                          *)
(***************************************************************************)
ExecutedOnce(t) == Finished(t) /\ Len(execs[t]) = 1

RunningTasks == {t \in TaskIds : Running(t)}

\* Number of calls of the mapped callable with argument a.
MapCalls(a) ==
    Cardinality({p \in TaskIds \X (1 .. (MaxTasks + 1)) :
                    /\ Submitted(p[1])
                    /\ task[p[1]].via = "map"
                    /\ task[p[1]].arg = a
                    /\ p[2] <= Len(execs[p[1]])})

\* Number of tasks map has put on the queue for argument a.
MapTasks(a) ==
    Cardinality({t \in TaskIds : Submitted(t) /\ task[t].via = "map" /\ task[t].arg = a})

MapPending(a) == Cardinality({i \in 1 .. Len(mapRest) : mapRest[i] = << a >>})

\* C1: once wait_completion() has returned, no task that was enqueued before the
\* call is still queued or running: each has been executed and has finished.
C1_WaitReturnsAfterEarlierTasks ==
    mpc = "returned" => \A t \in 1 .. snap : ~Queued(t) /\ ~Running(t) /\ Len(execs[t]) >= 1

\* C1 witness: a wait on more tasks than workers has returned.
C1_Witness == mpc = "returned" /\ snap > nworkers /\ nrets = 1

\* C2: a raising task does not stop its worker and counts as finished for the
\* barrier: after any mix of raising and non-raising tasks every worker stays in
\* its loop, and a wait_completion() that was entered eventually returns, every
\* task submitted before it, raising or not, having been executed exactly once.
C2_FailingTaskHarmless ==
    /\ (mpc = "waiting") ~> (mpc = "returned" /\ \A t \in 1 .. snap : ExecutedOnce(t))
    /\ [](\A w \in Workers(nworkers) : wpc[w] \in {"get", "run"})

\* C2 witness: one worker executed a raising task and then a normal one, and the
\* wait over both has returned.
C2_Witness ==
    /\ mpc = "returned"
    /\ \E t1, t2 \in 1 .. snap :
          /\ t1 < t2
          /\ Raises(task[t1].arg) /\ ~Raises(task[t2].arg)
          /\ ExecutedOnce(t1) /\ ExecutedOnce(t2)
          /\ execs[t1] = execs[t2]
    /\ printed >= 1

\* C3: every submitted task is queued, or has been taken from the queue and
\* executed exactly once by one worker; the queue holds no task twice, and no
\* task that has been executed is on the queue again.
C3_ExactlyOnce ==
    /\ \A t \in TaskIds :
          /\ Len(execs[t]) <= 1
          /\ ~Submitted(t) => execs[t] = << >>
          /\ Submitted(t) => (Queued(t) /\ execs[t] = << >>) \/ (~Queued(t) /\ Len(execs[t]) = 1)
    /\ \A i, j \in 1 .. Len(tasks) : tasks[i] = tasks[j] => i = j

\* C3 witness: two workers each executed one of two tasks, one of which raised.
C3_Witness ==
    \E t1, t2 \in TaskIds :
        /\ ExecutedOnce(t1) /\ ExecutedOnce(t2)
        /\ execs[t1] # execs[t2]
        /\ Raises(task[t1].arg)

\* C4 as claimed: a wait_completion() in progress can return as soon as the
\* tasks enqueued before it began have finished, whatever was enqueued since.
C4_WaitsOnlyForEarlierTasks ==
    (mpc = "waiting" /\ \A t \in 1 .. snap : ExecutedOnce(t)) => ENABLED wait_return

\* C5: wait_completion() can be called again and again: whenever nothing is
\* pending a call in progress can return at once, the workers are the same
\* live threads throughout, and a second or later call returns only when the
\* tasks submitted before it, after the earlier return, have been executed by them.
C5_WaitReusable ==
    /\ (mpc = "waiting" /\ \A t \in TaskIds : Submitted(t) => ExecutedOnce(t))
          => ENABLED wait_return
    /\ \A w \in Workers(nworkers) : wpc[w] \in {"get", "run"}
    /\ (mpc = "returned" /\ nrets >= 2)
          => \A t \in 1 .. snap : ExecutedOnce(t) /\ execs[t][1] \in Workers(nworkers)

\* C5 witness: a second wait_completion() has returned, over tasks of which some
\* were submitted after the first one.
C5_Witness == mpc = "returned" /\ nrets = 2 /\ prevSnap >= 1 /\ snap > prevSnap

\* C6: never more than N tasks are executing, and every execution is on one of
\* the N worker threads.
C6_BoundedConcurrency ==
    /\ Cardinality(RunningTasks) <= nworkers
    /\ \A t \in TaskIds : \A i \in 1 .. Len(execs[t]) : execs[t][i] \in 1 .. nworkers

\* C6 witness: all N workers are executing while a further task waits in the queue.
C6_Witness == Cardinality(RunningTasks) = nworkers /\ tasks # << >>

C8_MapOneTaskPerElement ==
    /\ \A a \in Args : MapTasks(a) + MapPending(a) = mapInputs[a]
    /\ mpc = "returned" => \A a \in Args : MapCalls(a) = mapInputs[a]

\* C8 witness: an iterable holding the same element twice was mapped and waited for.
C8_Witness == mpc = "returned" /\ \E a \in Args : mapInputs[a] = 2

\* The string ends in ".pdf", optionally followed by a "?query".
EndsInPdf(s) ==
    \E i \in 1 .. Len(s) :
        /\ LitAt(s, i, <<".", "p", "d", "f">>)
        /\ \/ i + 4 = Len(s) + 1
           \/ i + 4 <= Len(s) /\ s[i + 4] = "?"

\* C9: the classifier follows the precedence pdf > arxiv > doi > url.  A raw string
\* whose lower-cased form ends in ".pdf" (optionally followed by a "?query") is of
\* kind pdf with the original string as identifier; otherwise an arXiv match gives
\* kind arxiv with one of the extracted arXiv IDs; otherwise a DOI match gives kind
\* doi with one of the extracted DOIs; otherwise kind url, the identifier unchanged.
C9_ClassificationPrecedence ==
    ref # NoRef =>
        IF EndsInPdf(Lower(raw)) THEN ref.reftype = "pdf" /\ ref.ref = raw
        ELSE IF extract_arxiv(raw) # {}
             THEN ref.reftype = "arxiv" /\ ref.ref \in extract_arxiv(raw)
        ELSE IF extract_doi(raw) # {}
             THEN ref.reftype = "doi" /\ ref.ref \in extract_doi(raw)
        ELSE ref.reftype = "url" /\ ref.ref = raw

\* The pages of the document whose text holds the identifier id for the extractor.
DoiPages(id) == {n \in 1 .. Len(doc) : id \in extract_doi(doc[n].text)}
ArxivPages(id) == {n \in 1 .. Len(doc) : id \in extract_arxiv(doc[n].text)}

\* The references as (kind, page) pairs.
KindsAndPages == {<< r.reftype, r.page >> : r \in references}

\* C10: when the collector is done, a DOI that extract_doi finds in a page's text
\* is recorded as a Reference of kind doi, and an arXiv ID that extract_arxiv finds
\* in a page's text as a Reference of kind arxiv, tagged with the number of that
\* page (the first such page, the set keeping one Reference per identifier); and
\* the three-page document with the annotation https://a.com/doc.pdf on page 1,
\* the text "See DOI: 10.1000/182" on page 2 and "arxiv:9999.0001" on page 3
\* yields exactly the kinds pdf, doi, arxiv on the pages 1, 2, 3.
C10_TextDoiAndArxivRecorded ==
    cpc = "done" =>
        /\ \A n \in 1 .. Len(doc) :
              /\ \A d \in extract_doi(doc[n].text) :
                    \E r \in references :
                        r.ref = d /\ r.reftype = "doi" /\ r.page \in DoiPages(d)
              /\ \A a \in extract_arxiv(doc[n].text) :
                    \E r \in references :
                        r.ref = a /\ r.reftype = "arxiv" /\ r.page \in ArxivPages(a)
        /\ doc = ExampleDoc =>
              /\ Cardinality(references) = 3
              /\ KindsAndPages = {<<"pdf", 1>>, <<"doi", 2>>, <<"arxiv", 3>>}

\* C11: kind is consistent with identifier.  Any two References the classifier
\* produces, from any raw strings, that have equal identifiers have the same kind.
C11_KindConsistentWithIdentifier ==
    ref # NoRef =>
        \A other \in RawInputs : \A r \in Reference(other, 0) :
            r.ref = ref.ref => r.reftype = ref.reftype

Kinds == {"url", "pdf", "arxiv", "doi"}

\* C12: two References are equal exactly when their identifiers are equal, and
\* equal References have equal hashes; neither the page nor the kind matters, so
\* the set of References holds at most one entry per identifier.
C12_EqualityByIdentifier ==
    \A a \in references :
        /\ \A b \in references :
              /\ Reference_eq(a, b) <=> a.ref = b.ref
              /\ Reference_eq(a, b) => Reference_hash(a) = Reference_hash(b)
              /\ a.ref = b.ref => a = b
        /\ \A k \in Kinds : \A p \in 0 .. (MaxPages + 1) :
              /\ Reference_eq(a, [ref |-> a.ref, reftype |-> k, page |-> p])
              /\ Reference_hash(a) = Reference_hash([ref |-> a.ref, reftype |-> k, page |-> p])

\* C12 witness: the same DOI stood in the text of two pages, and the set holds it
\* once.
C12_Witness ==
    /\ cpc = "done"
    /\ Len(doc) = 2 /\ doc[1] = doc[2] /\ doc[1].links = << >>
    /\ extract_doi(doc[1].text) # {}
    /\ Cardinality(references) = 1

\* A page whose one external link annotation also stands literally in its text.
AnnotatedAndVisible(page) ==
    /\ Len(page.links) = 1
    /\ page.links[1].is_external
    /\ Contains(page.text, page.links[1].uri)

\* C13: the suppression rule.  A URL candidate of the text that equals, or is a
\* substring of, a URI already in the list of seen links is not classified and
\* not added: the step that visits it leaves the Reference set and the list as
\* they are.  So a document whose pages each carry a link both as annotation and
\* as visible text ends with exactly one Reference.
C13_SuppressionRule ==
    /\ [][\A url \in urlsLeft \ urlsLeft' :
              (\E i \in 1 .. Len(foundLinks) : Contains(foundLinks[i], url))
                  => references' = references /\ foundLinks' = foundLinks]_vars
    /\ []((cpc = "done" /\ \A n \in 1 .. Len(doc) : AnnotatedAndVisible(doc[n]))
             => Cardinality(references) = 1)

\* C13 witness: the collector is done with such a document of two pages; the
\* URLs of the text were suppressed, the list holding the annotations' URIs only.
C13_Witness ==
    /\ cpc = "done"
    /\ Len(doc) = 2
    /\ \A n \in 1 .. Len(doc) :
          AnnotatedAndVisible(doc[n]) /\ extract_urls(doc[n].text) # {}
    /\ Len(foundLinks) = Len(doc)
    /\ Cardinality(references) = 1

\* C14: a failure of the document reader while the link annotations of a page are
\* iterated is recovered locally; the construction of the document goes on and
\* succeeds, and no error reaches the caller.
C14_AnnotationFailureRecovered == cpc # "raised"

IsMailto(uri) == LitAt(uri, 1, <<"m", "a", "i", "l", "t", "o", ":">>)

\* C15: a link annotation whose URI starts with "mailto:" is never surfaced as a
\* Reference: the step that handles it leaves the reference set as it was, and no
\* Reference ever carries a mailto: identifier.
C15_MailtoNeverSurfaced ==
    /\ [][(cpc = "annot" /\ links # << >> /\ links' = Tail(links)
              /\ Head(links).is_external /\ IsMailto(Head(links).uri))
                => references' = references]_vars
    /\ [](\A r \in references : ~IsMailto(r.ref))

C15_Witness ==
    /\ cpc = "done"
    /\ Len(doc) = 2
    /\ doc[2].links # << >>
    /\ doc[2].links[1].is_external
    /\ IsMailto(doc[2].links[1].uri)
    /\ IsMailto(foundLinks[Len(doc[1].links) + 1])
    /\ references # {}

\* The identifiers the external link annotations of page n yield.
AnnotIds(n) ==
    {r.ref : r \in UNION {resolve_PDFObjRef(doc[n].links[i].uri, n) \ {NoRef} :
                              i \in {j \in 1 .. Len(doc[n].links) : doc[n].links[j].is_external}}}

\* The text matches of page n.
TextMatches(t) == extract_urls(t) \cup extract_arxiv(t) \cup extract_doi(t)

\* The identifiers the text matches of page n yield.
TextIds(n) == {r.ref : r \in UNION {Reference(c, n) : c \in TextMatches(doc[n].text)}}

\* C16: when the collector is done, the page of every Reference is the lowest page
\* number on which an annotation or a text match yields its identifier, and it is
\* at least 1.
C16_PageIsFirstObserved ==
    cpc = "done" =>
        \A r \in references :
            /\ r.page >= 1
            /\ \A n \in 1 .. Len(doc) :
                  r.ref \in AnnotIds(n) \cup TextIds(n) => r.page <= n

RECURSIVE SumOver(_, _)
SumOver(f, S) ==
    IF S = {} THEN 0
    ELSE LET k == CHOOSE x \in S : TRUE IN f[k] + SumOver(f, S \ {k})

Elems(s) == {s[i] : i \in 1 .. Len(s)}

\* C17: the grouped view of a finished document is an exact projection of the
\* reference set, in whatever order the set is iterated: the kinds listed are the
\* kinds that occur, the list of a kind holds exactly the identifiers of that
\* kind, each once, the lists together have as many entries as the set has
\* References, and get_references_count() is the sum of get_references_count(k)
\* over the kinds.
C17_GroupedViewIsProjection ==
    cpc = "done" =>
        /\ \A order \in IterationOrders(references) :
              LET d == get_references_as_dict(order, "None") IN
                /\ DOMAIN d = {r.reftype : r \in references}
                /\ \A k \in DOMAIN d :
                      /\ Elems(d[k]) = {r.ref : r \in get_references(references, k)}
                      /\ \A i, j \in 1 .. Len(d[k]) : d[k][i] = d[k][j] => i = j
                /\ SumOver([k \in DOMAIN d |-> Len(d[k])], DOMAIN d) = Cardinality(references)
        /\ get_references_count(references, "None")
              = SumOver([k \in Kinds |-> get_references_count(references, k)], Kinds)

C17_Witness ==
    /\ cpc = "done"
    /\ get_references_count(references, "url") >= 2
    /\ Cardinality(DOMAIN get_references_as_dict(CHOOSE o \in IterationOrders(references) : TRUE,
                                                 "None")) >= 3

\* C18: whenever opening a document fails, the error is one of the three
\* classified ones, chosen by the stage that failed: FileNotFoundError when the
\* argument is no URL and no existing file, DownloadError when it is a URL that
\* cannot be fetched, PDFInvalidError when the stream was obtained and cannot be
\* parsed; and cli.main exits with 1, 2, 4 respectively.
C18_OpeningFailsClassified ==
    opc \in {"raised", "exited", "uncaught"} =>
        /\ error \in {"FileNotFoundError", "DownloadError", "PDFInvalidError"}
        /\ error = "FileNotFoundError" <=> (~is_url(self_uri) /\ ~env.isfile)
        /\ error = "DownloadError" <=> (is_url(self_uri) /\ ~env.fetch_ok)
        /\ opc \in {"exited", "uncaught"} =>
              /\ opc = "exited"
              /\ error = "FileNotFoundError" => exit_code = 1
              /\ error = "DownloadError" => exit_code = 2
              /\ error = "PDFInvalidError" => exit_code = 4

\* C19: a failure of the pool orchestration never escapes a batch operation.  Once
\* an except clause of check_refs, download_urls or archive_links has caught what
\* pool construction, map or wait_completion raised, the operation returns
\* normally, check_refs with its "Summary of link checker:" string.
C19_PoolFailuresNeverEscape ==
    (caught # "none" /\ bpc \in {"returned", "escaped"}) =>
        /\ bpc = "returned"
        /\ call.op = "check_refs" => result = "Summary of link checker:"

\* C20: archive_links runs its requests on a pool of exactly 1 worker, so at most
\* one request is in flight; check_refs and download_urls run theirs on a pool of
\* exactly 5 workers whatever max_threads is, so at most 5 are in flight.
C20_FixedPoolSizes ==
    /\ call.op = "archive_links" => num_threads \in {0, 1} /\ inflight <= 1
    /\ call.op \in {"check_refs", "download_urls"} => num_threads \in {0, 5} /\ inflight <= 5

C20_Witness ==
    /\ call.op = "check_refs"
    /\ call.max_threads = 10
    /\ num_threads = 5
    /\ inflight = 5
    /\ queued = 1

\* C21: extract_arxiv matches the literal "arxiv" whatever its capitalisation, in
\* both forms: a text (whose identifiers hold no letters) yields the identifiers
\* that its lower-case form yields.
C21_ArxivCaseInsensitive ==
    extracted # NotCalled => extracted.arxiv = extract_arxiv(Lower(in_text))

\* The candidates of the three DOI patterns in a text, before they are cleaned.
DoiCandidates(t) ==
    FindAll("DOI_REGEX", t, 1) \cup FindAll("DOI_REGEX2", t, 1) \cup FindAll("DOI_REGEX3", t, 1)

\* "10.", four or more digits, "/", and a non-empty suffix.
DoiShape(d) ==
    /\ Len(d) >= 9
    /\ d[1] = "1" /\ d[2] = "0" /\ d[3] = "."
    /\ \E k \in 8 .. (Len(d) - 1) :
          /\ \A i \in 4 .. (k - 1) : d[i] \in Digits
          /\ d[k] = "/"
          /\ ~IsSpace(d[k + 1])

\* The fragments that name the DOI 10.1000/182, each in another surface form.
FormsOfOneDoi == {f \in TextFragments : Contains(f, <<"1", "0", ".", "1", "0", "0", "0", "/", "1", "8", "2">>)}

\* C22: every string extract_doi returns has the shape of a DOI; a candidate that
\* has not is dropped and the other candidates are returned all the same; and a
\* DOI that occurs in several surface forms is returned once.
C22_DoiResultsValid ==
    extracted # NotCalled =>
        LET cands == {StripChars(c, {".", ",", ";", ":", "!", "?"}) :
                         c \in DoiCandidates(clean_url_text(in_text))}
        IN  /\ \A d \in extracted.doi : DoiShape(d)
            /\ extracted.doi = {c \in cands : DoiShape(c)}
            /\ \A f, g \in FormsOfOneDoi :
                  in_text = f \o g =>
                      extracted.doi = {<<"1", "0", ".", "1", "0", "0", "0", "/", "1", "8", "2">>}

C22_Witness ==
    /\ extracted # NotCalled
    /\ Cardinality(DoiCandidates(clean_url_text(in_text))) = 2
    /\ Cardinality(extracted.doi) = 1
    /\ \E c \in DoiCandidates(clean_url_text(in_text)) : ~DoiShape(c)

\* C23: check_doi caches per DOI.  A call with a DOI that is in the cache returns
\* the cached result and makes no lookup; a call with a DOI that is not stores
\* what it returns, with or without an error; a stored result never changes; a
\* call with an empty DOI returns an "Empty DOI" error and stores nothing.
C23_CachePerDoi ==
    /\ [][nchecks' # nchecks =>
             IF returned'.doi \in EmptyDois
             THEN /\ returned'.error = "Empty DOI" /\ ~returned'.is_retracted
                  /\ cache' = cache /\ lookups' = lookups
             ELSE IF returned'.doi \in DOMAIN cache
             THEN returned' = cache[returned'.doi] /\ cache' = cache /\ lookups' = lookups
             ELSE returned'.doi \in DOMAIN cache' /\ cache'[returned'.doi] = returned']_vars
    /\ [][\A d \in DOMAIN cache : d \in DOMAIN cache' /\ cache'[d] = cache[d]]_vars
    /\ [](DOMAIN cache \cap EmptyDois = {})

C23_Witness ==
    /\ nchecks = 2
    /\ lookups = 1
    /\ returned.error = "Error checking DOI"
    /\ returned.doi \in DOMAIN cache
    /\ cache[returned.doi] = returned

\* C24: the summary partitions the checked DOIs: total_checked is the number of
\* results, retracted_count and error_count the numbers of results that are
\* retracted and that carry an error, clean_count the number of results that are
\* neither; clean_count is not negative and the three counts add up to the total.
C24_SummaryPartitions ==
    LET s == get_retraction_summary(results) IN
        /\ s.total_checked = Cardinality(DOMAIN results)
        /\ s.retracted_count = Cardinality({d \in DOMAIN results : results[d].is_retracted})
        /\ s.error_count = Cardinality({d \in DOMAIN results : results[d].error # "None"})
        /\ s.clean_count = Cardinality({d \in DOMAIN results :
                                           ~results[d].is_retracted /\ results[d].error = "None"})
        /\ s.clean_count >= 0
        /\ s.retracted_count + s.error_count + s.clean_count = s.total_checked
        /\ s.retracted_dois \cap s.error_dois = {}

C24_Witness ==
    LET s == get_retraction_summary(results) IN
        /\ s.total_checked = 3
        /\ s.retracted_count = 1
        /\ s.error_count = 1
        /\ s.clean_count = 1

\* The number of external link annotations of the document: the entries the
\* annotation pass puts in the seen list.
NumAnnotated ==
    Len(SelectSeq(Flatten([n \in 1 .. Len(doc) |-> doc[n].links]), LAMBDA l : l.is_external))

\* C25: the seen list only ever grows; a text URL candidate that is accepted is
\* appended to it in the same step; and no entry appended in the text pass is
\* equal to, or a substring of, an entry that was in the list before it, on
\* whatever page the earlier entry was accepted or annotated.
C25_SeenListGrows ==
    /\ [][/\ Len(foundLinks') >= Len(foundLinks)
           /\ SubSeq(foundLinks', 1, Len(foundLinks)) = foundLinks]_vars
    /\ [][\A url \in urlsLeft \ urlsLeft' :
              references' # references => foundLinks' = Append(foundLinks, url)]_vars
    /\ [](cpc \in {"text", "done"} =>
              \A j \in (NumAnnotated + 1) .. Len(foundLinks) :
                  \A i \in 1 .. (j - 1) : ~Contains(foundLinks[i], foundLinks[j]))

C25_Witness ==
    /\ cpc = "done"
    /\ Len(doc) = 3
    /\ doc[1] = doc[2] /\ doc[2] = doc[3]
    /\ Len(foundLinks) = NumAnnotated + 1
    /\ foundLinks[Len(foundLinks)] \in extract_urls(doc[3].text)
    /\ \E r \in references : r.ref = foundLinks[Len(foundLinks)] /\ r.page = 1

\* The external link annotations of a document from page n on, in order, each
\* with its page.
RECURSIVE LinksFrom(_, _)
LinksFrom(d, n) ==
    IF n > Len(d) THEN << >>
    ELSE LET ext == SelectSeq(d[n].links, LAMBDA l : l.is_external)
         IN  [i \in 1 .. Len(ext) |-> [uri |-> ext[i].uri, page |-> n]] \o LinksFrom(d, n + 1)

\* The reference sets and seen lists the annotation pass can end with.
RECURSIVE AfterAnnots(_, _)
AfterAnnots(ls, sts) ==
    IF ls = << >> THEN sts
    ELSE AfterAnnots(Tail(ls),
            {[refs |-> IF r = NoRef THEN st.refs ELSE SetAdd(st.refs, r),
              found |-> Append(st.found, Head(ls).uri)] :
                 st \in sts, r \in resolve_PDFObjRef(Head(ls).uri, Head(ls).page)})

\* What the URL loop of page n can end with, over every order of the candidates U.
RECURSIVE AfterUrls(_, _, _)
AfterUrls(U, n, st) ==
    IF U = {} THEN {st}
    ELSE UNION {IF \E i \in 1 .. Len(st.found) : Contains(st.found[i], u)
                THEN AfterUrls(U \ {u}, n, st)
                ELSE UNION {AfterUrls(U \ {u}, n, [refs |-> SetAdd(st.refs, r),
                                                    found |-> Append(st.found, u)]) :
                               r \in Reference(u, n)} : u \in U}

\* What an arXiv or DOI loop of page n can end with, over every order.
RECURSIVE AfterIds(_, _, _)
AfterIds(C, n, st) ==
    IF C = {} THEN {st}
    ELSE UNION {UNION {AfterIds(C \ {c}, n, [st EXCEPT !.refs = SetAdd(@, r)]) :
                          r \in Reference(c, n)} : c \in C}

RECURSIVE AfterPages(_, _, _)
AfterPages(ss, n, sts) ==
    IF n > Len(ss) THEN sts
    ELSE AfterPages(ss, n + 1,
            UNION {UNION {UNION {AfterIds(extract_doi(ss[n]), n, s3) :
                                    s3 \in AfterIds(extract_arxiv(ss[n]), n, s2)} :
                             s2 \in AfterUrls(extract_urls(ss[n]), n, s1)} : s1 \in sts})

\* The reference sets the collector can end with on the document, over every
\* order in which the candidates of a page can be iterated.
FinalSets ==
    {st.refs : st \in AfterPages(segs, 1,
                          AfterAnnots(LinksFrom(doc, 1), {[refs |-> {}, found |-> << >>]}))}

\* C26: the result is a function of the document alone: when the collector is
\* done, its reference set is the only set that any order of iterating the
\* candidates of the pages can end with.
C26_ResultIndependentOfOrder ==
    cpc = "done" => FinalSets = {references}

\* C27: check_refs loses no result under concurrency.  Once its try block is over
\* with nothing caught, while the summary is built and after, every submitted
\* reference has been appended to a status-code bucket, the bucket sizes add up
\* to the number of references, and no task of the call is queued or running.
C27_NoResultLost ==
    (call.op = "check_refs" /\ caught = "none" /\ bpc \in {"after", "returned", "escaped"}) =>
        /\ codes = call.nrefs
        /\ queued = 0
        /\ inflight = 0

C27_Witness ==
    /\ call.op = "check_refs"
    /\ call.nrefs = 6
    /\ caught = "none"
    /\ bpc = "after"
    /\ codes = 6
    /\ inflight = 0

\* C28: download_urls never lets two tasks write the same output file: each
\* distinct URL of the batch is submitted once, and two tasks that have their
\* files open for distinct URLs have them open on different paths.
C28_DistinctOutputFiles ==
    /\ dpc # "call" => \A i, j \in 1 .. Len(urls) : urls[i] = urls[j] => i = j
    /\ \A s, t \in writing : s.url # t.url => s.fn_download # t.fn_download

\* C29: a mailto: annotation has no effect at all: its URI is never recorded in
\* the seen list, so no text URL is suppressed for being part of a mailto: URI.
C29_MailtoHasNoEffect ==
    \A i \in 1 .. Len(foundLinks) : ~LitAt(foundLinks[i], 1, <<"m", "a", "i", "l", "t", "o", ":">>)

\* C30: in a run with retraction checking the retraction summary is part of the
\* report: when a run that checked the DOIs of its document has ended, the
\* summary its text or JSON report was made from holds the retraction check,
\* beside the same source, metadata and references entries.
C30_RetractionsInReport ==
    (cli_pc = "done" /\ cli_args.check_retractions /\ ~cli_args.text /\ DOMAIN cli_found # {}) =>
        /\ "retraction_check" \in DOMAIN report.summary
        /\ \A k \in DOMAIN DocumentSummary : report.summary[k] = DocumentSummary[k]

=============================================================================
